---- MODULE Spec2Model ----
(***************************************************************************)
(* Statement import service of the finance tracker: staging store, review  *)
(* edits, confirmation committer and rule learning                         *)
(* (statement-import.js, v2 with UUID keys), over the ledger schema.       *)
(*                                                                         *)
(* Text values (descriptions, categories, patterns, account names) are     *)
(* sequences of one-character strings, so that lower-casing, tokenising    *)
(* and substring search are computed as the code computes them.            *)
(***************************************************************************)
EXTENDS Integers, Sequences, FiniteSets, TLC

\* ------------------------------------------------------------------------
\* SQL NULL for the three kinds of column values of the model.
\* ------------------------------------------------------------------------
NULL == "NULL"               \* uuid / varchar columns held as strings
NullText == <<"NULL">>       \* TEXT columns held as character sequences
NullNum == 0 - 999           \* numeric columns

\* ------------------------------------------------------------------------
\* Bounds of the model.
\* ------------------------------------------------------------------------
MaxUploads == 1
MaxEdits == 2
MaxLedger == 3
MaxConfirmRows == 6
MaxUploadRequests == 2

\* ------------------------------------------------------------------------
\* Text helpers (JavaScript string functions used by the service).
\* ------------------------------------------------------------------------
LowerLetters ==
   {"a","b","c","d","e","f","g","h","i","j","k","l","m",
    "n","o","p","q","r","s","t","u","v","w","x","y","z"}

UpperLetters ==
   {"A","B","C","D","E","F","G","H","I","J","K","L","M",
    "N","O","P","Q","R","S","T","U","V","W","X","Y","Z"}

LowerOf ==
   [c \in UpperLetters |->
      CASE c = "A" -> "a" [] c = "B" -> "b" [] c = "C" -> "c" [] c = "D" -> "d"
        [] c = "E" -> "e" [] c = "F" -> "f" [] c = "G" -> "g" [] c = "H" -> "h"
        [] c = "I" -> "i" [] c = "J" -> "j" [] c = "K" -> "k" [] c = "L" -> "l"
        [] c = "M" -> "m" [] c = "N" -> "n" [] c = "O" -> "o" [] c = "P" -> "p"
        [] c = "Q" -> "q" [] c = "R" -> "r" [] c = "S" -> "s" [] c = "T" -> "t"
        [] c = "U" -> "u" [] c = "V" -> "v" [] c = "W" -> "w" [] c = "X" -> "x"
        [] c = "Y" -> "y" [] c = "Z" -> "z"]

\* String.prototype.toLowerCase
toLowerCase(s) ==
   [i \in 1..Len(s) |-> IF s[i] \in UpperLetters THEN LowerOf[s[i]] ELSE s[i]]

\* String.prototype.includes
includes(s, p) ==
   \E k \in 0..(Len(s) - Len(p)) : \A j \in 1..Len(p) : s[k + j] = p[j]

\* tx.description.replace(/[^a-zA-Z\s]/g, ' ')
replaceNonAlpha(s) ==
   [i \in 1..Len(s) |->
      IF s[i] \in LowerLetters \cup UpperLetters \cup {" "} THEN s[i] ELSE " "]

\* .trim().split(/\s+/) : the maximal runs of non-blank characters; a string
\* that is empty after trim() splits into the single empty word.
RECURSIVE splitRuns(_, _, _)
splitRuns(s, i, cur) ==
   IF i > Len(s)
     THEN IF cur = <<>> THEN <<>> ELSE <<cur>>
     ELSE IF s[i] = " "
            THEN IF cur = <<>> THEN splitRuns(s, i + 1, <<>>)
                               ELSE <<cur>> \o splitRuns(s, i + 1, <<>>)
            ELSE splitRuns(s, i + 1, Append(cur, s[i]))

trimSplit(s) ==
   LET runs == splitRuns(s, 1, <<>>) IN IF runs = <<>> THEN << <<>> >> ELSE runs

\* Array.prototype.filter
RECURSIVE filterLong(_)
filterLong(ws) ==
   IF ws = <<>> THEN <<>>
   ELSE IF Len(Head(ws)) > 2 THEN <<Head(ws)>> \o filterLong(Tail(ws))
                             ELSE filterLong(Tail(ws))

\* Array.prototype.join(' ')
RECURSIVE joinSpace(_)
joinSpace(ws) ==
   IF ws = <<>> THEN <<>>
   ELSE IF Len(ws) = 1 THEN Head(ws)
        ELSE Head(ws) \o <<" ">> \o joinSpace(Tail(ws))

PatternWords == 4
MinPatternLen == 3

\* The rule pattern learnt from a description: up to the first four
\* alphabetic words longer than two characters, lower-cased.
rulePattern(description) ==
   LET words == filterLong(trimSplit(replaceNonAlpha(description)))
       first == SubSeq(words, 1, IF Len(words) < PatternWords THEN Len(words) ELSE PatternWords)
   IN  toLowerCase(joinSpace(first))

\* ------------------------------------------------------------------------
\* Fixed data: owners, their chart of accounts, text values in use.
\* ------------------------------------------------------------------------
Users == {"u1", "u2"}

Uncategorized == <<"U","n","c","a","t","e","g","o","r","i","z","e","d">>
Travel == <<"T","r","a","v","e","l">>
Food == <<"F","o","o","d">>

\* Rows of the accounts table (schema.sql), in table order.
accounts ==
   << [account_id |-> "a1", user_id |-> "u1", account_name |-> <<"B","a","n","k">>,
       account_type |-> "Asset"],
      [account_id |-> "a2", user_id |-> "u1", account_name |-> <<"T","r","a","v","e","l">>,
       account_type |-> "Expense"],
      [account_id |-> "a3", user_id |-> "u1", account_name |-> <<"S","a","l","a","r","y">>,
       account_type |-> "Income"],
      [account_id |-> "b1", user_id |-> "u2", account_name |-> <<"B","a","n","k">>,
       account_type |-> "Asset"],
      [account_id |-> "b2", user_id |-> "u2", account_name |-> <<"T","r","a","v","e","l">>,
       account_type |-> "Expense"] >>

AccountIds == {accounts[i].account_id : i \in 1..Len(accounts)}

AccountOwner(id) ==
   LET i == CHOOSE k \in 1..Len(accounts) : accounts[k].account_id = id
   IN  accounts[i].user_id

\* Descriptions occurring in uploaded statements and review edits.
DescUber == <<"U","b","e","r"," ","7">>
DescUBER == <<"U","B","E","R"," ","x">>
DescZed == <<"Z","e","d"," ","1","2">>
DescUberCab == <<"U","b","e","r"," ","c","a","b">>
DescSalary == <<"S","a","l","a","r","y"," ","1">>

\* Default category mappings, tried in order when no learned rule matched.
defaultRules ==
   << [patterns |-> << <<"s","w","i","g","g","y">>, <<"z","o","m","a","t","o">>, <<"u","b","e","r"," ","e","a","t","s">>, <<"f","o","o","d">>, <<"r","e","s","t","a","u","r","a","n","t">>, <<"h","o","t","e","l">>, <<"d","h","a","b","a">>, <<"c","a","f","e">>, <<"p","i","z","z","a">>, <<"d","o","m","i","n","o","s">>, <<"m","c","d","o","n","a","l","d","s">>, <<"k","f","c">>, <<"b","u","r","g","e","r">> >>,
       category |-> <<"F","o","o","d">>],
      [patterns |-> << <<"b","i","g","b","a","s","k","e","t">>, <<"b","l","i","n","k","i","t">>, <<"z","e","p","t","o">>, <<"d","m","a","r","t">>, <<"g","r","o","c","e","r","y">>, <<"r","e","l","i","a","n","c","e"," ","f","r","e","s","h">>, <<"n","a","t","u","r","e"," ","b","a","s","k","e","t">>, <<"m","o","r","e"," ","s","u","p","e","r","m","a","r","k","e","t">>, <<"s","u","p","e","r","m","a","r","k","e","t">>, <<"m","i","l","k">>, <<"v","e","g","e","t","a","b","l","e","s">> >>,
       category |-> <<"G","r","o","c","e","r","y">>],
      [patterns |-> << <<"a","m","a","z","o","n">>, <<"f","l","i","p","k","a","r","t">>, <<"m","y","n","t","r","a">>, <<"a","j","i","o">>, <<"m","e","e","s","h","o">>, <<"n","y","k","a","a">>, <<"s","h","o","p","p","i","n","g">>, <<"c","r","o","m","a">>, <<"r","e","l","i","a","n","c","e"," ","d","i","g","i","t","a","l">> >>,
       category |-> <<"S","h","o","p","p","i","n","g">>],
      [patterns |-> << <<"u","b","e","r">>, <<"o","l","a">>, <<"r","a","p","i","d","o">>, <<"m","e","t","r","o">>, <<"i","r","c","t","c">>, <<"r","a","i","l","w","a","y">>, <<"m","a","k","e","m","y","t","r","i","p">>, <<"g","o","i","b","i","b","o">>, <<"c","l","e","a","r","t","r","i","p">>, <<"y","a","t","r","a">>, <<"i","n","d","i","g","o">>, <<"a","i","r"," ","i","n","d","i","a">>, <<"s","p","i","c","e","j","e","t">>, <<"v","i","s","t","a","r","a">>, <<"b","u","s">>, <<"c","a","b">> >>,
       category |-> <<"T","r","a","v","e","l">>],
      [patterns |-> << <<"p","e","t","r","o","l">>, <<"d","i","e","s","e","l">>, <<"f","u","e","l">>, <<"h","p"," ","p","u","m","p">>, <<"b","h","a","r","a","t"," ","p","e","t","r","o","l","e","u","m">>, <<"i","n","d","i","a","n"," ","o","i","l">>, <<"s","h","e","l","l">>, <<"b","p","c","l">>, <<"h","p","c","l">>, <<"i","o","c","l">> >>,
       category |-> <<"F","u","e","l">>],
      [patterns |-> << <<"n","e","t","f","l","i","x">>, <<"h","o","t","s","t","a","r">>, <<"p","r","i","m","e"," ","v","i","d","e","o">>, <<"s","p","o","t","i","f","y">>, <<"y","o","u","t","u","b","e">>, <<"d","i","s","n","e","y">>, <<"z","e","e","5">>, <<"s","o","n","y"," ","l","i","v">>, <<"j","i","o"," ","c","i","n","e","m","a">>, <<"s","u","b","s","c","r","i","p","t","i","o","n">> >>,
       category |-> <<"S","u","b","s","c","r","i","p","t","i","o","n">>],
      [patterns |-> << <<"e","l","e","c","t","r","i","c","i","t","y">>, <<"b","e","s","c","o","m">>, <<"t","a","t","a"," ","p","o","w","e","r">>, <<"a","d","a","n","i">>, <<"t","o","r","r","e","n","t"," ","p","o","w","e","r">>, <<"l","i","g","h","t"," ","b","i","l","l">>, <<"w","a","t","e","r">>, <<"g","a","s">>, <<"l","p","g">>, <<"p","i","p","e","l","i","n","e">> >>,
       category |-> <<"U","t","i","l","i","t","i","e","s">>],
      [patterns |-> << <<"a","i","r","t","e","l">>, <<"j","i","o">>, <<"v","o","d","a","f","o","n","e">>, <<"v","i"," ">>, <<"b","s","n","l">>, <<"m","o","b","i","l","e">>, <<"r","e","c","h","a","r","g","e">>, <<"b","r","o","a","d","b","a","n","d">>, <<"w","i","f","i">>, <<"i","n","t","e","r","n","e","t">>, <<"a","c","t"," ","f","i","b","e","r","n","e","t">> >>,
       category |-> <<"T","e","l","e","c","o","m">>],
      [patterns |-> << <<"l","i","c">>, <<"i","n","s","u","r","a","n","c","e">>, <<"i","c","i","c","i"," ","p","r","u">>, <<"h","d","f","c"," ","l","i","f","e">>, <<"s","b","i"," ","l","i","f","e">>, <<"m","a","x"," ","l","i","f","e">>, <<"s","t","a","r"," ","h","e","a","l","t","h">>, <<"b","a","j","a","j"," ","a","l","l","i","a","n","z">>, <<"p","o","l","i","c","y">>, <<"p","r","e","m","i","u","m">> >>,
       category |-> <<"I","n","s","u","r","a","n","c","e">>],
      [patterns |-> << <<"h","o","s","p","i","t","a","l">>, <<"d","o","c","t","o","r">>, <<"m","e","d","i","c","a","l">>, <<"p","h","a","r","m","a">>, <<"m","e","d","i","c","i","n","e">>, <<"a","p","o","l","l","o">>, <<"m","e","d","p","l","u","s">>, <<"n","e","t","m","e","d","s">>, <<"p","r","a","c","t","o">>, <<"d","i","a","g","n","o","s","t","i","c">>, <<"l","a","b">>, <<"p","a","t","h","o","l","o","g","y">>, <<"c","l","i","n","i","c">>, <<"h","e","a","l","t","h">> >>,
       category |-> <<"M","e","d","i","c","a","l">>],
      [patterns |-> << <<"r","e","n","t">>, <<"h","o","u","s","e"," ","r","e","n","t">>, <<"p","g"," ","r","e","n","t">>, <<"m","a","i","n","t","e","n","a","n","c","e">>, <<"s","o","c","i","e","t","y">>, <<"a","s","s","o","c","i","a","t","i","o","n">> >>,
       category |-> <<"H","o","u","s","i","n","g">>],
      [patterns |-> << <<"e","m","i">>, <<"l","o","a","n">>, <<"e","q","u","a","t","e","d"," ","m","o","n","t","h","l","y">>, <<"h","o","m","e"," ","l","o","a","n">>, <<"c","a","r"," ","l","o","a","n">>, <<"p","e","r","s","o","n","a","l"," ","l","o","a","n">> >>,
       category |-> <<"E","M","I"," ","P","a","y","m","e","n","t">>],
      [patterns |-> << <<"s","a","l","a","r","y">>, <<"w","a","g","e","s">>, <<"p","a","y","r","o","l","l">>, <<"s","t","i","p","e","n","d">> >>,
       category |-> <<"S","a","l","a","r","y">>],
      [patterns |-> << <<"i","n","t","e","r","e","s","t">>, <<"i","n","t",".">>, <<"f","d"," ","i","n","t","e","r","e","s","t">>, <<"r","d"," ","i","n","t","e","r","e","s","t">>, <<"s","a","v","i","n","g","s"," ","i","n","t","e","r","e","s","t">> >>,
       category |-> <<"I","n","t","e","r","e","s","t">>],
      [patterns |-> << <<"d","i","v","i","d","e","n","d">>, <<"d","i","v",".">> >>,
       category |-> <<"D","i","v","i","d","e","n","d">>],
      [patterns |-> << <<"a","t","m">>, <<"c","a","s","h"," ","w","i","t","h","d","r","a","w","a","l">>, <<"n","e","f","t">>, <<"r","t","g","s">>, <<"i","m","p","s">>, <<"u","p","i">>, <<"t","r","a","n","s","f","e","r">> >>,
       category |-> <<"T","r","a","n","s","f","e","r">>],
      [patterns |-> << <<"t","a","x">>, <<"t","d","s">>, <<"g","s","t">>, <<"i","n","c","o","m","e"," ","t","a","x">>, <<"a","d","v","a","n","c","e"," ","t","a","x">>, <<"s","e","l","f"," ","a","s","s","e","s","s","m","e","n","t">> >>,
       category |-> <<"T","a","x">>],
      [patterns |-> << <<"e","d","u","c","a","t","i","o","n">>, <<"s","c","h","o","o","l">>, <<"c","o","l","l","e","g","e">>, <<"u","n","i","v","e","r","s","i","t","y">>, <<"t","u","i","t","i","o","n">>, <<"c","o","u","r","s","e">>, <<"e","x","a","m">>, <<"u","d","e","m","y">>, <<"c","o","u","r","s","e","r","a">> >>,
       category |-> <<"E","d","u","c","a","t","i","o","n">>],
      [patterns |-> << <<"g","y","m">>, <<"f","i","t","n","e","s","s">>, <<"s","p","o","r","t","s">>, <<"m","o","v","i","e">>, <<"p","v","r">>, <<"i","n","o","x">>, <<"b","o","o","k","m","y","s","h","o","w">>, <<"e","n","t","e","r","t","a","i","n","m","e","n","t">>, <<"g","a","m","i","n","g">> >>,
       category |-> <<"E","n","t","e","r","t","a","i","n","m","e","n","t">>],
      [patterns |-> << <<"d","o","n","a","t","i","o","n">>, <<"c","h","a","r","i","t","y">>, <<"n","g","o">> >>,
       category |-> <<"D","o","n","a","t","i","o","n">>] >>

\* ------------------------------------------------------------------------
\* State.
\* ------------------------------------------------------------------------
VARIABLES
   importTables,        \* column type of the import tables: absent, int, uuid
   uploadDir,           \* temporary files present in the uploads directory
   current_balance,     \* accounts.current_balance, by account id
   ledgerSchema,        \* DDL that created the ledger tables: full, minimal
   staged_transactions, \* set of staged rows
   transactions,        \* set of ledger rows
   category_rules,      \* set of learned rules
   nextId,              \* SERIAL of staged_transactions.id
   nextBatch,           \* next batch id an upload generates
   nextTx,              \* next ledger transaction_id
   uploads,             \* uploads done so far (bounded by MaxUploads)
   edits,               \* review edits done so far (bounded by MaxEdits)
   reqs,                \* confirm requests in flight, statement by statement
   last                 \* the last request served and its response

vars == <<importTables, ledgerSchema, staged_transactions, transactions,
          category_rules, nextId, nextBatch, nextTx, uploads, edits, reqs, last,
          uploadDir, current_balance>>

NoBatch == 0

\* ------------------------------------------------------------------------
\* Table initialisation (run at every start of the service).
\* ------------------------------------------------------------------------
\* Variant: the tables are dropped whenever they exist.
MigrationAlways(tables) == tables # "absent"

\* check.rows.length > 0 && check.rows[0].data_type !== 'uuid'
MigrationNeeded(tables) == tables = "int"

\* ------------------------------------------------------------------------
\* SQL and JavaScript value semantics.
\* ------------------------------------------------------------------------
\* column = $n : unknown, hence not selected, when either side is NULL
SqlEq(a, b, null) == a # null /\ b # null /\ a = b

\* column != 'literal' : unknown, hence not selected, when the column is NULL
SqlNe(a, b, null) == a # null /\ b # null /\ a # b

\* Variant: no id is falsy.
NeverFalsy(id) == FALSE

\* !value for an id read from an uuid column
Falsy(id) == id = NULL

\* value || null for an id of a request body
OrNull(id) == IF id = "" THEN NULL ELSE id

\* ------------------------------------------------------------------------
\* Classification engine.
\* ------------------------------------------------------------------------
RuleConfidenceBase == 70
RuleConfidenceStep == 5
RuleConfidenceCap == 95
DefaultConfidence == 50

\* Variant: the second argument whatever the first.
MinSecond(a, b) == b

Min(a, b) == IF a < b THEN a ELSE b

\* Indexes of a sequence whose element satisfies a test, first one chosen.
FirstIndex(S) == CHOOSE i \in S : \A j \in S : i <= j

\* One candidate of autoClassify's transactions.map; rules is the owner's
\* corpus in the order the query returned it, confidence is in hundredths.
classifyOne(rules, accs, sourceAccount, tx) ==
   LET desc == toLowerCase(IF tx.description = NullText THEN <<>> ELSE tx.description)
       hitsR == {i \in 1..Len(rules) : includes(desc, toLowerCase(rules[i].pattern))}
       hitsD == {i \in 1..Len(defaultRules) :
                    \E k \in 1..Len(defaultRules[i].patterns) :
                       includes(desc, defaultRules[i].patterns[k])}
       byRule == hitsR # {}
       rule == rules[FirstIndex(hitsR)]
       cat1 == IF byRule THEN rule.category ELSE Uncategorized
       useDefault == cat1 = Uncategorized /\ hitsD # {}
       category == IF useDefault THEN defaultRules[FirstIndex(hitsD)].category ELSE cat1
       confidence ==
          IF useDefault THEN DefaultConfidence
          ELSE IF byRule
                 THEN Min(RuleConfidenceCap,
                          RuleConfidenceBase + rule.hit_count * RuleConfidenceStep)
                 ELSE 0
       debit1 == IF byRule THEN rule.debit_account_id ELSE NULL
       credit1 == IF byRule THEN rule.credit_account_id ELSE NULL
       \* accounts.find(a => a.account_type === type && name includes category)
       found(type) ==
          {i \in 1..Len(accs) :
              /\ accs[i].account_type = type
              /\ includes(toLowerCase(accs[i].account_name), toLowerCase(category))}
       findId(type) ==
          IF found(type) = {} THEN NULL ELSE accs[FirstIndex(found(type))].account_id
       \* category.toLowerCase() of a null category is a TypeError
       throws(type) ==
          /\ category = NullText
          /\ \E i \in 1..Len(accs) : accs[i].account_type = type
       outflow == tx.transaction_type = "debit"
       debit ==
          IF sourceAccount = NULL THEN debit1
          ELSE IF outflow
                 THEN IF Falsy(debit1) THEN findId("Expense") ELSE debit1
                 ELSE IF Falsy(debit1) THEN sourceAccount ELSE debit1
       credit ==
          IF sourceAccount = NULL THEN credit1
          ELSE IF outflow
                 THEN IF Falsy(credit1) THEN sourceAccount ELSE credit1
                 ELSE IF Falsy(credit1) THEN findId("Income") ELSE credit1
       threw ==
          /\ sourceAccount # NULL
          /\ \/ outflow /\ Falsy(debit1) /\ throws("Expense")
             \/ ~outflow /\ Falsy(credit1) /\ throws("Income")
   IN  [date |-> tx.date, description |-> tx.description, amount |-> tx.amount,
        transaction_type |-> tx.transaction_type,
        suggested_category |-> category,
        suggested_debit_account_id |-> debit,
        suggested_credit_account_id |-> credit,
        confidence |-> confidence,
        threw |-> threw]

\* The rows of a table satisfying a test, as a sequence in table order.
RECURSIVE SelectSeq2(_, _)
SelectSeq2(s, user) ==
   IF s = <<>> THEN <<>>
   ELSE IF Head(s).user_id = user THEN <<Head(s)>> \o SelectSeq2(Tail(s), user)
        ELSE SelectSeq2(Tail(s), user)

autoClassify(rules, userId, txs, sourceAccountId) ==
   LET accs == SelectSeq2(accounts, userId)
       \* accounts.find(a => String(a.account_id) === String(sourceAccountId))
       srcHits == {i \in 1..Len(accs) : accs[i].account_id = sourceAccountId}
       sourceAccount ==
          IF sourceAccountId = NULL \/ srcHits = {} THEN NULL
          ELSE accs[FirstIndex(srcHits)].account_id
   IN  [i \in 1..Len(txs) |-> classifyOne(rules, accs, sourceAccount, txs[i])]

\* SELECT * FROM category_rules WHERE user_id = $1 ORDER BY hit_count DESC :
\* every order of the owner's rules with non-increasing hit_count.
Orders(S) ==
   {f \in [1..Cardinality(S) -> S] : \A x \in S : \E i \in 1..Cardinality(S) : f[i] = x}

\* Variant: the owner's rules in any order.
RulesUnranked(rules, userId) == Orders({r \in rules : r.user_id = userId})

RulesRanked(rules, userId) ==
   {f \in Orders({r \in rules : r.user_id = userId}) :
       \A i, j \in 1..Len(f) : i < j => f[i].hit_count >= f[j].hit_count}

\* ------------------------------------------------------------------------
\* Ledger schema: constraints an INSERT INTO transactions must satisfy.
\* The full DDL is schema.sql; the minimal DDL is the one the server
\* creates when schema.sql is not found on first run.
\* ------------------------------------------------------------------------
InsertAccepted(schema, t) ==
   /\ t.date # NullNum                               \* date DATE NOT NULL
   /\ t.amount # NullNum                             \* amount NOT NULL
   /\ t.debit_account_id \in AccountIds              \* NOT NULL REFERENCES accounts
   /\ t.credit_account_id \in AccountIds             \* NOT NULL REFERENCES accounts
   /\ schema = "full" =>
         /\ t.amount > 0                             \* CHECK (amount > 0)
         /\ t.debit_account_id # t.credit_account_id \* CHECK (debit != credit)

\* ------------------------------------------------------------------------
\* Confirmation committer, statement by statement.  A request p carries the
\* rows its SELECT returned, the index of the row in work and its counters;
\* db is the database [staged, ledger, rules, nextTx].
\* p.faults names the statements of this request the database fails.
\* ------------------------------------------------------------------------
MaxErrorsReturned == 5

\* SELECT * FROM staged_transactions WHERE user_id = $1 AND status != 'rejected'
\*   [AND batch_id = $2]
ConfirmSelected(staged, userId, batch_id) ==
   {r \in staged :
       /\ r.user_id = userId
       /\ SqlNe(r.status, "rejected", NULL)
       /\ batch_id # NoBatch => r.batch_id = batch_id}

\* SELECT transaction_id FROM transactions WHERE user_id = $1 AND date = $2
\*   AND amount = $3 AND description = $4 LIMIT 1
dupCheck(ledger, userId, tx) ==
   \E t \in ledger :
      /\ t.user_id = userId
      /\ SqlEq(t.date, tx.date, NullNum)
      /\ SqlEq(t.amount, tx.amount, NullNum)
      /\ SqlEq(t.description, tx.description, NullText)

LedgerRow(id, userId, tx) ==
   [transaction_id |-> id, user_id |-> userId, date |-> tx.date,
    amount |-> tx.amount, description |-> tx.description,
    debit_account_id |-> tx.suggested_debit_account_id,
    credit_account_id |-> tx.suggested_credit_account_id,
    category |-> tx.suggested_category]

\* Variant: learning without the test on the category.
LearnsAnyCategory(tx) ==
   /\ tx.description # NullText
   /\ tx.description # <<>>
   /\ Len(rulePattern(tx.description)) >= MinPatternLen

\* tx.description && tx.suggested_category !== 'Uncategorized'
\*   && pattern.length >= 3
Learns(tx) ==
   /\ tx.description # NullText
   /\ tx.description # <<>>
   /\ tx.suggested_category # Uncategorized
   /\ Len(rulePattern(tx.description)) >= MinPatternLen

\* Variant: on conflict the rule is overwritten but its hit_count is kept.
UpsertRuleNoIncrement(rules, userId, pattern, tx) ==
   LET old == {r \in rules : r.user_id = userId /\ r.pattern = pattern}
   IN  IF old = {}
         THEN rules \cup
              {[user_id |-> userId, pattern |-> pattern,
                category |-> tx.suggested_category,
                debit_account_id |-> tx.suggested_debit_account_id,
                credit_account_id |-> tx.suggested_credit_account_id,
                hit_count |-> 1]}
         ELSE (rules \ old) \cup
              {[r EXCEPT !.category = tx.suggested_category,
                         !.debit_account_id = tx.suggested_debit_account_id,
                         !.credit_account_id = tx.suggested_credit_account_id] : r \in old}

\* INSERT INTO category_rules ... ON CONFLICT (user_id, pattern) DO UPDATE
UpsertRule(rules, userId, pattern, tx) ==
   LET old == {r \in rules : r.user_id = userId /\ r.pattern = pattern}
   IN  IF old = {}
         THEN rules \cup
              {[user_id |-> userId, pattern |-> pattern,
                category |-> tx.suggested_category,
                debit_account_id |-> tx.suggested_debit_account_id,
                credit_account_id |-> tx.suggested_credit_account_id,
                hit_count |-> 1]}
         ELSE (rules \ old) \cup
              {[r EXCEPT !.category = tx.suggested_category,
                         !.debit_account_id = tx.suggested_debit_account_id,
                         !.credit_account_id = tx.suggested_credit_account_id,
                         !.hit_count = r.hit_count + 1] : r \in old}

\* Variant: the batch branch keeps every row that is not rejected.
ConfirmDeleteRejectedOnly(staged, userId, batch_id) ==
   {r \in staged : ~(r.user_id = userId /\ r.batch_id = batch_id
                      /\ r.status = "rejected")}

\* Variant: every staged row of the owner is deleted.
ConfirmDeleteAllOfOwner(staged, userId, batch_id) ==
   {r \in staged : r.user_id # userId}

\* DELETE FROM staged_transactions WHERE user_id = $1 AND batch_id = $2, or
\* DELETE FROM staged_transactions WHERE user_id = $1 AND status != 'rejected'
ConfirmDelete(staged, userId, batch_id) ==
   IF batch_id # NoBatch
     THEN {r \in staged : ~(r.user_id = userId /\ r.batch_id = batch_id)}
     ELSE {r \in staged : ~(r.user_id = userId /\ SqlNe(r.status, "rejected", NULL))}

\* Columns of the accounts table (schema.sql; the same in the fallback DDL
\* of server.js but for is_active).
AccountColumns ==
   {"account_id", "user_id", "account_name", "account_type", "sub_type",
    "description", "current_balance", "currency", "is_active", "created_at",
    "updated_at"}

\* Columns the confirm's UPDATE accounts assigns and reads.
BalanceUpdateSets == {"calculated_balance"}
BalanceUpdateReads == {"account_id", "user_id", "opening_balance"}

\* SUM(CASE WHEN t.<side> = a.account_id THEN t.amount ELSE 0 END) over a set
\* of ledger rows; a NULL amount adds nothing.
RECURSIVE SumSide(_, _, _)
SumSide(rows, side, a) ==
   IF rows = {} THEN 0
   ELSE LET t == CHOOSE x \in rows : TRUE
        IN  (IF t[side] = a /\ t.amount # NullNum THEN t.amount ELSE 0)
               + SumSide(rows \ {t}, side, a)

\* Debits less credits of account a over the ledger.
LedgerBalance(ledger, a) ==
   LET rows == {t \in ledger : t.debit_account_id = a \/ t.credit_account_id = a}
   IN  SumSide(rows, "debit_account_id", a) - SumSide(rows, "credit_account_id", a)

\* try { UPDATE accounts a SET calculated_balance = (...) WHERE a.user_id = $1 }
\* catch {}: the column current_balance after the statement. A statement that
\* names a column the table does not have fails, and the error is swallowed.
BalanceUpdate(ledger, userId, balance) ==
   IF ~((BalanceUpdateSets \cup BalanceUpdateReads) \subseteq AccountColumns)
     THEN balance
     ELSE [a \in DOMAIN balance |->
             IF AccountOwner(a) = userId /\ "current_balance" \in BalanceUpdateSets
               THEN LedgerBalance(ledger, a)
               ELSE balance[a]]

Idle == [pc |-> "idle"]

\* The request after its SELECT; rows is the order the query returned.
ConfirmBegin(userId, batch_id, rows, faults) ==
   [pc |-> IF Len(rows) = 0 THEN "done" ELSE "row",
    status |-> IF Len(rows) = 0 THEN 400 ELSE 0,
    user |-> userId, batch |-> batch_id, rows |-> rows, i |-> 1,
    imported |-> 0, skipped |-> 0, errors |-> <<>>, ruleErrors |-> {},
    faults |-> faults]

\* End of the loop body for the row in work.
NextRow(p) ==
   [p EXCEPT !.i = p.i + 1,
             !.pc = IF p.i + 1 > Len(p.rows) THEN "delete" ELSE "row"]

\* One statement of the request (with the JavaScript that precedes it).
ConfirmStep(schema, db, p) ==
   LET tx == p.rows[p.i] IN
   CASE p.pc = "row" ->
          IF Falsy(tx.suggested_debit_account_id) \/ Falsy(tx.suggested_credit_account_id)
            THEN [db |-> db,
                  p |-> NextRow([p EXCEPT !.skipped = p.skipped + 1])]
            ELSE IF dupCheck(db.ledger, p.user, tx)
                   THEN [db |-> db,
                         p |-> NextRow([p EXCEPT !.skipped = p.skipped + 1])]
                   ELSE [db |-> db, p |-> [p EXCEPT !.pc = "insert"]]
     [] p.pc = "insert" ->
          LET row == LedgerRow(db.nextTx, p.user, tx) IN
          IF <<"insert", tx.id>> \in p.faults \/ ~InsertAccepted(schema, row)
            THEN [db |-> db,
                  p |-> NextRow([p EXCEPT !.errors = Append(p.errors, tx.id)])]
            ELSE [db |-> [db EXCEPT !.ledger = db.ledger \cup {row},
                                    !.nextTx = db.nextTx + 1],
                  p |-> IF Learns(tx)
                          THEN [p EXCEPT !.imported = p.imported + 1, !.pc = "rule"]
                          ELSE NextRow([p EXCEPT !.imported = p.imported + 1])]
     [] p.pc = "rule" ->
          IF <<"rule", tx.id>> \in p.faults
            THEN [db |-> db,
                  p |-> NextRow([p EXCEPT !.ruleErrors = p.ruleErrors \cup {db.nextTx - 1}])]
            ELSE [db |-> [db EXCEPT !.rules =
                             UpsertRule(db.rules, p.user, rulePattern(tx.description), tx)],
                  p |-> NextRow(p)]
     [] p.pc = "delete" ->
          IF <<"delete", 0>> \in p.faults
            THEN [db |-> db, p |-> [p EXCEPT !.pc = "done", !.status = 500]]
            ELSE [db |-> [db EXCEPT !.staged = ConfirmDelete(db.staged, p.user, p.batch)],
                  p |-> [p EXCEPT !.pc = "balance"]]
     [] p.pc = "balance" ->
          [db |-> [db EXCEPT !.balance = BalanceUpdate(db.ledger, p.user, db.balance)],
           p |-> [p EXCEPT !.pc = "done", !.status = 200]]

\* The whole request, run without interleaving.
RECURSIVE ConfirmRun(_, _, _)
ConfirmRun(schema, db, p) ==
   IF p.pc = "done" THEN [db |-> db, p |-> p]
   ELSE LET s == ConfirmStep(schema, db, p) IN ConfirmRun(schema, s.db, s.p)

\* Statements of a request the database may fail: the rule upsert of one row
\* or the final DELETE, at most one per request.
FaultChoices(rows) ==
   {{}} \cup {{<<"delete", 0>>}} \cup {{<<"rule", r.id>>} : r \in rows}

\* Variant: every error is returned.
ErrorsAll(errors) == errors

\* errors.slice(0, 5)
ErrorsReturned(errors) ==
   SubSeq(errors, 1, Min(Len(errors), MaxErrorsReturned))

\* The request served last and what it answered: the status code, the counts
\* of the JSON body and, for confirm, the ids of the rows named in errors.
\* ruleErrors is not part of the answer: it records the ledger rows whose rule
\* upsert failed, an error the handler swallows.
Response(op, p) ==
   [op |-> op, user |-> p.user, batch |-> p.batch, status |-> p.status,
    imported |-> IF p.status = 200 THEN p.imported ELSE 0,
    skipped |-> IF p.status = 200 THEN p.skipped ELSE 0,
    errors |-> IF p.status = 200 THEN ErrorsReturned(p.errors) ELSE <<>>,
    ruleErrors |-> p.ruleErrors]

Reply(op, status) ==
   [op |-> op, user |-> "", batch |-> NoBatch, status |-> status,
    imported |-> 0, skipped |-> 0, errors |-> <<>>, ruleErrors |-> {}]

Database == [staged |-> staged_transactions, ledger |-> transactions,
             rules |-> category_rules, nextTx |-> nextTx,
             balance |-> current_balance]

\* ------------------------------------------------------------------------
\* Requests of the model: statement files, source accounts, edit bodies.
\* ------------------------------------------------------------------------
Candidate(date, description, amount, type) ==
   [date |-> date, description |-> description, amount |-> amount,
    transaction_type |-> type]

\* What the extractors return for the statements uploaded in the model.
Files ==
   { <<>>,
     << Candidate(1, DescUber, 1, "debit"), Candidate(1, DescUBER, 1, "debit") >>,
     << Candidate(1, DescUber, 1, "debit"), Candidate(2, DescZed, 2, "credit") >> }

SourceAccounts == {NULL, "a1"}

\* Bodies of PUT /staged/:id
EditBodies ==
   { [status |-> NULL],
     [description |-> NullText],
     [description |-> DescUber],
     [amount |-> 0],
     [suggested_credit_account_id |-> "a2"] }

\* The updates object of PUT /staged-bulk
BulkBodies ==
   { [status |-> "rejected"],
     [suggested_category |-> Food, status |-> "approved"] }

IdFields == {"suggested_debit_account_id", "suggested_credit_account_id"}

\* UPDATE staged_transactions SET <fields of the body> (single edit)
ApplyEdit(row, body) ==
   [f \in DOMAIN row |->
      IF f \in DOMAIN body
        THEN IF f \in IdFields THEN OrNull(body[f]) ELSE body[f]
        ELSE row[f]]

\* if (updates.<field>) : the fields of a bulk body that are truthy
BulkFields(body) ==
   {f \in DOMAIN body \cap {"suggested_category"} : body[f] # <<>> /\ body[f] # NullText}
   \cup
   {f \in DOMAIN body \cap (IdFields \cup {"status", "transaction_type"}) :
       body[f] # "" /\ body[f] # NULL}

ApplyBulk(row, body) ==
   [f \in DOMAIN row |-> IF f \in BulkFields(body) THEN body[f] ELSE row[f]]

StagedRow(id, userId, batch_id, c) ==
   [id |-> id, user_id |-> userId, batch_id |-> batch_id, date |-> c.date,
    description |-> c.description, amount |-> c.amount,
    transaction_type |-> c.transaction_type,
    suggested_category |-> c.suggested_category,
    suggested_debit_account_id |-> c.suggested_debit_account_id,
    suggested_credit_account_id |-> c.suggested_credit_account_id,
    confidence |-> c.confidence, status |-> "pending"]

\* ------------------------------------------------------------------------
\* Initial state: a database whose import tables are absent, of the legacy
\* integer-keyed layout, or of the current layout; the legacy tables cannot
\* hold rows of the uuid-keyed users, so all tables start empty.
\* ------------------------------------------------------------------------
Init ==
   /\ importTables \in {"absent", "int", "uuid"}
   /\ ledgerSchema \in {"full", "minimal"}
   /\ staged_transactions = {}
   /\ transactions = {}
   /\ category_rules = {}
   /\ nextId = 1
   /\ nextBatch = 1
   /\ nextTx = 1
   /\ uploads = 0
   /\ edits = 0
   /\ reqs = [s \in {1, 2} |-> Idle]
   /\ uploadDir = {}
   /\ current_balance = [a \in AccountIds |-> 0]
   /\ last = Reply("none", 0)

Ready == importTables = "uuid"

\* ------------------------------------------------------------------------
\* Operations; U is the set of owners making requests.
\* ------------------------------------------------------------------------
initImportTables ==
   /\ importTables' = "uuid"
   /\ staged_transactions' =
         IF MigrationNeeded(importTables) THEN {} ELSE staged_transactions
   /\ category_rules' =
         IF MigrationNeeded(importTables) THEN {} ELSE category_rules
   /\ last' = Reply("init", 0)
   /\ UNCHANGED <<ledgerSchema, transactions, nextId, nextBatch, nextTx,
                  uploads, edits, reqs,
                  uploadDir, current_balance>>

\* Any request served before the tables have the current layout: every
\* statement on the import tables fails (relation missing, or uuid text
\* given for an integer column), so nothing is written.
LegacyRequest ==
   /\ ~Ready
   /\ \E op \in {"upload", "edit", "bulk", "confirm", "clear"} :
         last' = Reply(op, 500)
   /\ UNCHANGED <<importTables, ledgerSchema, staged_transactions, transactions,
                  category_rules, nextId, nextBatch, nextTx, uploads, edits, reqs,
                  uploadDir, current_balance>>

\* POST /upload
Upload(U, F, S) ==
   /\ Ready
   /\ uploads < MaxUploads
   /\ \E userId \in U, file \in F, src \in S :
      \E rules \in RulesRanked(category_rules, userId) :
         LET classified == autoClassify(rules, userId, file, src)
             threw == \E i \in 1..Len(classified) : classified[i].threw
             fails == Len(file) = 0 \/ threw
         IN  /\ staged_transactions' =
                   IF fails THEN staged_transactions
                   ELSE staged_transactions \cup
                        {StagedRow(nextId + i - 1, userId, nextBatch, classified[i]) :
                            i \in 1..Len(classified)}
             /\ nextId' = IF fails THEN nextId ELSE nextId + Len(file)
             /\ nextBatch' = IF fails THEN nextBatch ELSE nextBatch + 1
             /\ last' = Reply("upload", IF Len(file) = 0 THEN 400
                                        ELSE IF threw THEN 500 ELSE 200)
   /\ uploads' = uploads + 1
   /\ UNCHANGED <<importTables, ledgerSchema, transactions, category_rules,
                  nextTx, edits, reqs,
                  uploadDir, current_balance>>

\* GET /staged and GET /rules
List ==
   /\ Ready
   /\ last' = Reply("list", 200)
   /\ UNCHANGED <<importTables, ledgerSchema, staged_transactions, transactions,
                  category_rules, nextId, nextBatch, nextTx, uploads, edits, reqs,
                  uploadDir, current_balance>>

\* PUT /staged/:id
EditStaged(U, B) ==
   /\ Ready
   /\ edits < MaxEdits
   /\ \E userId \in U, id \in 1..(nextId - 1), body \in B :
         LET hit == {r \in staged_transactions : r.id = id /\ r.user_id = userId}
         IN  /\ staged_transactions' =
                   (staged_transactions \ hit) \cup {ApplyEdit(r, body) : r \in hit}
             /\ last' = Reply("edit", IF hit = {} THEN 404 ELSE 200)
   /\ edits' = edits + 1
   /\ UNCHANGED <<importTables, ledgerSchema, transactions, category_rules,
                  nextId, nextBatch, nextTx, uploads, reqs,
                  uploadDir, current_balance>>

\* A listed id that is no integer (such as "abc"): the UPDATE comparing it
\* with the integer column id fails (invalid input syntax for type integer).
NotAnId == 0 - 1

\* Ids a caller may list: ids the SERIAL has handed out, and one that is
\* no integer.
ListedIds == SUBSET ((1..(nextId - 1)) \cup {NotAnId})

\* The ids of a bulk edit whose UPDATE statement runs without an error.
BulkStatementsDone(ids, body) ==
   IF BulkFields(body) = {} THEN {} ELSE {id \in ids : id # NotAnId}

\* PUT /staged-bulk
BulkEdit(U, B) ==
   /\ Ready
   /\ edits < MaxEdits
   /\ \E userId \in U, ids \in ListedIds, body \in B :
         LET done == BulkStatementsDone(ids, body)
             hit == {r \in staged_transactions : r.id \in done /\ r.user_id = userId}
         IN  /\ staged_transactions' =
                   (staged_transactions \ hit) \cup {ApplyBulk(r, body) : r \in hit}
             /\ last' = [op |-> "bulk", user |-> userId, ids |-> ids,
                         status |-> IF ids = {} THEN 400 ELSE 200,
                         updated |-> Cardinality(done)]
   /\ edits' = edits + 1
   /\ UNCHANGED <<importTables, ledgerSchema, transactions, category_rules,
                  nextId, nextBatch, nextTx, uploads, reqs,
                  uploadDir, current_balance>>

\* DELETE /staged
ClearStaged(U) ==
   /\ Ready
   /\ \E userId \in U, batch_id \in 0..(nextBatch - 1) :
         /\ staged_transactions' =
               {r \in staged_transactions :
                   ~(r.user_id = userId /\ (batch_id = NoBatch \/ r.batch_id = batch_id))}
         /\ last' = [Reply("clear", 200) EXCEPT !.user = userId, !.batch = batch_id]
   /\ UNCHANGED <<importTables, ledgerSchema, transactions, category_rules,
                  nextId, nextBatch, nextTx, uploads, edits, reqs,
                  uploadDir, current_balance>>

\* POST /confirm, served without interleaving with other requests
Confirm(U) ==
   /\ Ready
   /\ \E userId \in U, batch_id \in 0..(nextBatch - 1) :
      \E rows \in Orders(ConfirmSelected(staged_transactions, userId, batch_id)) :
      \E faults \in FaultChoices(ConfirmSelected(staged_transactions, userId, batch_id)) :
         LET r == ConfirmRun(ledgerSchema, Database,
                             ConfirmBegin(userId, batch_id, rows, faults))
         IN  /\ staged_transactions' = r.db.staged
             /\ transactions' = r.db.ledger
             /\ category_rules' = r.db.rules
             /\ nextTx' = r.db.nextTx
             /\ current_balance' = r.db.balance
             /\ r.db.nextTx <= MaxLedger + 1
             /\ last' = Response("confirm", r.p)
   /\ UNCHANGED <<importTables, ledgerSchema, nextId, nextBatch, uploads, edits, reqs,
                  uploadDir>>

\* POST /confirm, one database statement at a time: request slot s sends
\* its SELECT, then the statements of its loop, then DELETE and the balance
\* UPDATE, while the other slot does the same.
ConfirmSelect(U, s) ==
   /\ Ready
   /\ reqs[s] = Idle
   /\ \E userId \in U, batch_id \in 0..(nextBatch - 1) :
      \E rows \in Orders(ConfirmSelected(staged_transactions, userId, batch_id)) :
         LET p == ConfirmBegin(userId, batch_id, rows, {})
         IN  /\ reqs' = [reqs EXCEPT ![s] = IF p.pc = "done" THEN Idle ELSE p]
             /\ last' = IF p.pc = "done" THEN Response("confirm", p) ELSE last
   /\ UNCHANGED <<importTables, ledgerSchema, staged_transactions, transactions,
                  category_rules, nextId, nextBatch, nextTx, uploads, edits,
                  uploadDir, current_balance>>

ConfirmStatement(s) ==
   /\ reqs[s] # Idle
   /\ LET r == ConfirmStep(ledgerSchema, Database, reqs[s])
      IN  /\ r.db.nextTx <= MaxLedger + 1
          /\ staged_transactions' = r.db.staged
          /\ transactions' = r.db.ledger
          /\ category_rules' = r.db.rules
          /\ nextTx' = r.db.nextTx
          /\ current_balance' = r.db.balance
          /\ reqs' = [reqs EXCEPT ![s] = IF r.p.pc = "done" THEN Idle ELSE r.p]
          /\ last' = IF r.p.pc = "done" THEN Response("confirm", r.p) ELSE last
   /\ UNCHANGED <<importTables, ledgerSchema, nextId, nextBatch, uploads, edits,
                  uploadDir>>

Owner == {"u1"}

Next ==
   \/ initImportTables
   \/ LegacyRequest
   \/ Upload(Owner, Files, SourceAccounts)
   \/ List
   \/ EditStaged(Owner, EditBodies)
   \/ BulkEdit(Owner, BulkBodies)
   \/ ClearStaged(Owner)
   \/ Confirm(Owner)

\* Requests served one at a time.
Spec == Init /\ [][Next]_vars

NextConcurrent ==
   \/ initImportTables
   \/ Upload(Owner, Files, SourceAccounts)
   \/ \E s \in DOMAIN reqs : ConfirmSelect(Owner, s)
   \/ \E s \in DOMAIN reqs : ConfirmStatement(s)

\* Two confirm requests in flight, interleaved statement by statement.
SpecConcurrent == Init /\ [][NextConcurrent]_vars

\* ------------------------------------------------------------------------
\* POST /upload statement by statement: the temporary file multer stored,
\* extraction, unlink, classification, one staging INSERT per candidate,
\* and the catch block.
\* ------------------------------------------------------------------------
\* A date text parseDate returns that is no calendar date ('2024-02-31',
\* from 31/02/2024): the staging INSERT of the candidate fails.
InvalidDate == 0 - 31

PdfPassword == "secret"

Passwords == {NULL, "secret", "wrong"}

\* Uploaded files: extension, whether a PDF is password-protected, whether
\* a workbook is unreadable, and the candidates the extractor finds.
StatementFile(ext, protected, corrupt, rows) ==
   [ext |-> ext, protected |-> protected, corrupt |-> corrupt, rows |-> rows]

UploadFiles ==
   { StatementFile("csv", FALSE, FALSE, <<>>),
     StatementFile("csv", FALSE, FALSE,
                   << Candidate(1, DescUber, 1, "debit"),
                      Candidate(InvalidDate, DescZed, 2, "credit") >>),
     StatementFile("xlsx", FALSE, TRUE, <<>>),
     StatementFile("pdf", TRUE, FALSE, << Candidate(1, DescUber, 1, "debit") >>) }

\* parsePDF rejects a protected document unless the password opens it.
DecryptionFails(file, password) ==
   file.ext = "pdf" /\ file.protected /\ password # PdfPassword

\* parseCSV / parseExcel / parsePDF: the candidates, or an exception.
extract(file, password) ==
   IF file.ext = "pdf"
     THEN [threw |-> DecryptionFails(file, password), rows |-> file.rows]
     ELSE [threw |-> file.corrupt, rows |-> file.rows]

\* INSERT INTO staged_transactions: the date column rejects an invalid date.
StagingAccepted(c) == c.date # InvalidDate

\* Variant: the file stays.
UnlinkNothing(dir, path) == dir

\* try { fs.unlinkSync(path) } catch {}
Unlink(dir, path) == dir \ {path}

\* Variant: every candidate counts.
CountAll(inserted, ok) == inserted + 1

\* inserted++ after a staging INSERT that did not throw
CountInserted(inserted, ok) == IF ok THEN inserted + 1 ELSE inserted

UploadBegin(userId, file, password, src, path, batch_id, faults) ==
   [pc |-> "parse", op |-> "upload", status |-> 0, user |-> userId,
    file |-> file, password |-> password, source |-> src, path |-> path,
    batch |-> batch_id, transactions |-> <<>>, classified |-> <<>>, i |-> 1,
    inserted |-> 0, faults |-> faults]

\* One step of the request; rules is what the SELECT of autoClassify returns.
UploadStep(fs, p, rules) ==
   CASE p.pc = "parse" ->
           LET e == extract(p.file, p.password)
           IN  [fs |-> fs,
                p |-> IF e.threw THEN [p EXCEPT !.pc = "catch"]
                      ELSE [p EXCEPT !.pc = "unlink", !.transactions = e.rows]]
     [] p.pc = "unlink" ->
           [fs |-> [fs EXCEPT !.dir = Unlink(fs.dir, p.path)],
            p |-> IF Len(p.transactions) = 0
                    THEN [p EXCEPT !.pc = "done", !.status = 400]
                    ELSE [p EXCEPT !.pc = "classify"]]
     [] p.pc = "classify" ->
           LET classified == autoClassify(rules, p.user, p.transactions, p.source)
               threw == \/ "classify" \in p.faults
                        \/ \E i \in 1..Len(classified) : classified[i].threw
           IN  [fs |-> fs,
                p |-> IF threw THEN [p EXCEPT !.pc = "catch"]
                      ELSE [p EXCEPT !.pc = "insert", !.classified = classified]]
     [] p.pc = "insert" ->
           LET c == p.classified[p.i]
               ok == StagingAccepted(c)
               more == p.i < Len(p.classified)
           IN  [fs |-> IF ok
                         THEN [fs EXCEPT !.staged = fs.staged \cup
                                           {StagedRow(fs.nextId, p.user, p.batch, c)},
                                         !.nextId = fs.nextId + 1]
                         ELSE fs,
                p |-> [p EXCEPT !.i = p.i + 1,
                                !.inserted = CountInserted(p.inserted, ok),
                                !.pc = IF more THEN "insert" ELSE "done",
                                !.status = IF more THEN 0 ELSE 200]]
     [] p.pc = "catch" ->
           [fs |-> [fs EXCEPT !.dir = Unlink(fs.dir, p.path)],
            p |-> [p EXCEPT !.pc = "done", !.status = 500]]

\* The answer of an upload: batch id and counts on success only.
UploadResponse(p) ==
   [op |-> "upload", user |-> p.user, status |-> p.status,
    batch |-> IF p.status = 200 THEN p.batch ELSE NoBatch,
    total_parsed |-> IF p.status = 200 THEN Len(p.transactions) ELSE 0,
    total_staged |-> IF p.status = 200 THEN p.inserted ELSE 0]

\* multer has stored the file of the request under a fresh name; a request
\* without a file is answered 400 at once.
UploadReceive(U, s) ==
   /\ Ready
   /\ reqs[s] = Idle
   /\ uploads < MaxUploadRequests
   /\ \/ /\ last' = [op |-> "upload", user |-> "", status |-> 400, batch |-> NoBatch,
                     total_parsed |-> 0, total_staged |-> 0]
         /\ UNCHANGED <<reqs, uploadDir>>
      \/ \E userId \in U, file \in UploadFiles, src \in SourceAccounts :
         \E password \in IF file.ext = "pdf" THEN Passwords ELSE {NULL} :
         \E faults \in IF file.rows = <<>> THEN {{}} ELSE {{}, {"classify"}} :
            /\ reqs' = [reqs EXCEPT ![s] =
                          UploadBegin(userId, file, password, src, nextBatch,
                                      nextBatch, faults)]
            /\ uploadDir' = uploadDir \cup {nextBatch}
            /\ last' = last
   /\ uploads' = uploads + 1
   /\ nextBatch' = nextBatch + 1
   /\ UNCHANGED <<importTables, ledgerSchema, staged_transactions, transactions,
                  category_rules, nextId, nextTx, edits, current_balance>>

UploadStatement(s) ==
   /\ reqs[s] # Idle
   /\ \E rules \in RulesRanked(category_rules, reqs[s].user) :
         LET r == UploadStep([staged |-> staged_transactions, dir |-> uploadDir,
                              nextId |-> nextId], reqs[s], rules)
         IN  /\ staged_transactions' = r.fs.staged
             /\ uploadDir' = r.fs.dir
             /\ nextId' = r.fs.nextId
             /\ reqs' = [reqs EXCEPT ![s] = IF r.p.pc = "done" THEN Idle ELSE r.p]
             /\ last' = IF r.p.pc = "done" THEN UploadResponse(r.p) ELSE last
   /\ UNCHANGED <<importTables, ledgerSchema, transactions, category_rules,
                  nextBatch, nextTx, uploads, edits, current_balance>>

NextUpload ==
   \/ initImportTables
   \/ \E s \in DOMAIN reqs : UploadReceive(Owner, s)
   \/ \E s \in DOMAIN reqs : UploadStatement(s)

\* Two upload requests in flight, interleaved step by step.
SpecUpload == Init /\ [][NextUpload]_vars

\* ------------------------------------------------------------------------
\* The classification engine applied to drawn inputs: a rule corpus as
\* confirms leave it (both accounts set, hit_count >= 1, one rule per owner
\* and pattern), one candidate, a source account id.
\* ------------------------------------------------------------------------
Rule(userId, pattern, category, debit, credit, hits) ==
   [user_id |-> userId, pattern |-> pattern, category |-> category,
    debit_account_id |-> debit, credit_account_id |-> credit,
    hit_count |-> hits]

ClassifyHits == {1, 5, 6, 7}

\* The rules an owner may hold for one pattern: none, or one.
RulesOfPattern(userId, pattern, categories, sides) ==
   {{}} \cup
   {{Rule(userId, pattern, c, a[1], a[2], h)} :
       c \in categories, a \in sides, h \in ClassifyHits}

ClassifyCorpora ==
   {x \cup y \cup z :
       x \in RulesOfPattern("u1", rulePattern(DescUber), {Food, Travel},
                            {<<"a2", "a1">>, <<"a1", "a3">>}),
       y \in RulesOfPattern("u1", rulePattern(DescUberCab), {Food}, {<<"a2", "a1">>}),
       z \in {{}, {Rule("u2", rulePattern(DescZed), Food, "b1", "b1", 1)}}}

ClassifyCandidates ==
   {Candidate(1, d, 1, t) :
       d \in {DescUber, DescUberCab, DescZed, DescSalary}, t \in {"debit", "credit"}}

ClassifySources == {NULL, "a1", "b1"}

InitClassify ==
   /\ importTables = "uuid"
   /\ ledgerSchema = "full"
   /\ staged_transactions = {}
   /\ transactions = {}
   /\ category_rules \in ClassifyCorpora
   /\ nextId = 1
   /\ nextBatch = 1
   /\ nextTx = 1
   /\ uploads = 0
   /\ edits = 0
   /\ reqs = [s \in {1, 2} |-> Idle]
   /\ uploadDir = {}
   /\ current_balance = [a \in AccountIds |-> 0]
   /\ last = Reply("none", 0)

\* autoClassify for one candidate; the call and its result are kept in last.
Classify ==
   /\ \E userId \in Owner, c \in ClassifyCandidates, src \in ClassifySources :
      \E rules \in RulesRanked(category_rules, userId) :
         last' = [op |-> "classify", user |-> userId, source |-> src,
                  candidate |-> c,
                  out |-> autoClassify(rules, userId, <<c>>, src)[1]]
   /\ UNCHANGED <<importTables, ledgerSchema, staged_transactions, transactions,
                  category_rules, nextId, nextBatch, nextTx, uploads, edits, reqs,
                  uploadDir, current_balance>>

SpecClassify == InitClassify /\ [][Classify]_vars

\* ------------------------------------------------------------------------
\* Confirm of a reviewed batch in which inserts fail: the staging store as
\* an upload of MaxConfirmRows rows and review edits leave it, with rows
\* whose amount was set to null (the ledger insert violates NOT NULL), at
\* most one row that can be inserted and at most one without accounts.
\* ------------------------------------------------------------------------
ReviewedRow(i, amount, debit, credit) ==
   StagedRow(i, "u1", 1,
             [date |-> i, description |-> DescZed, amount |-> amount,
              transaction_type |-> "debit", suggested_category |-> Uncategorized,
              suggested_debit_account_id |-> debit,
              suggested_credit_account_id |-> credit, confidence |-> 0])

ReviewedStores ==
   LET failing(i) == ReviewedRow(i, NullNum, "a2", "a1")
       good(i) == ReviewedRow(i, i, "a2", "a1")
       unresolved(i) == ReviewedRow(i, i, NULL, "a1")
       ids == 1..MaxConfirmRows
   IN  { {failing(i) : i \in ids} }
       \cup { {IF i = 1 THEN good(i) ELSE failing(i) : i \in ids} }
       \cup { {IF i = 1 THEN good(i) ELSE IF i = 2 THEN unresolved(i) ELSE failing(i) :
                  i \in ids} }

InitErrors ==
   /\ importTables = "uuid"
   /\ ledgerSchema = "full"
   /\ staged_transactions \in ReviewedStores
   /\ transactions = {}
   /\ category_rules = {}
   /\ nextId = MaxConfirmRows + 1
   /\ nextBatch = 2
   /\ nextTx = 1
   /\ uploads = MaxUploads
   /\ edits = MaxEdits
   /\ reqs = [s \in {1, 2} |-> Idle]
   /\ uploadDir = {}
   /\ current_balance = [a \in AccountIds |-> 0]
   /\ last = Reply("none", 0)

SpecErrors == InitErrors /\ [][Confirm(Owner)]_vars

\* ------------------------------------------------------------------------
\* Several batches and two owners: u1 has staged batch 1, u2 has staged
\* batch 2, a ledger row and a rule (left by an earlier upload and confirm
\* of u2); u1 then uploads once more, confirms and clears, the confirm
\* request being served statement by statement.
\* ------------------------------------------------------------------------
StagedBatch(firstId, userId, batch_id, file, src) ==
   LET classified == autoClassify(<<>>, userId, file, src)
   IN  {StagedRow(firstId + i - 1, userId, batch_id, classified[i]) :
           i \in 1..Len(classified)}

InitFrame ==
   /\ importTables = "uuid"
   /\ ledgerSchema = "full"
   /\ staged_transactions =
         StagedBatch(1, "u1", 1,
                     << Candidate(1, DescUber, 1, "debit"),
                        Candidate(2, DescZed, 2, "credit") >>, "a1")
         \cup StagedBatch(3, "u2", 2, << Candidate(1, DescUber, 1, "debit") >>, "b1")
   /\ transactions =
         {LedgerRow(1, "u2", r) :
             r \in StagedBatch(0, "u2", 0, << Candidate(1, DescUber, 1, "debit") >>, "b1")}
   /\ category_rules = {Rule("u2", rulePattern(DescUber), Travel, "b2", "b1", 1)}
   /\ nextId = 4
   /\ nextBatch = 3
   /\ nextTx = 2
   /\ uploads = 0
   /\ edits = 0
   /\ reqs = [s \in {1, 2} |-> Idle]
   /\ uploadDir = {}
   /\ current_balance = [a \in AccountIds |-> 0]
   /\ last = Reply("none", 0)

NextFrame ==
   \/ Upload(Owner, Files, SourceAccounts)
   \/ ClearStaged(Owner)
   \/ ConfirmSelect(Owner, 1)
   \/ ConfirmStatement(1)

SpecFrame == InitFrame /\ [][NextFrame]_vars

\* ------------------------------------------------------------------------
\* Vocabulary of the properties.
\* ------------------------------------------------------------------------
\* A step that served a confirm request to its end.
ConfirmDone == last'.op = "confirm"

\* The rows a confirm of owner u scoped to batch b is about (b = NoBatch: all).
InScope(u, b) ==
   {r \in staged_transactions : r.user_id = u /\ (b = NoBatch \/ r.batch_id = b)}

\* Two rows (staged or ledger) agree on owner, date, amount and description.
SameKey(a, b) ==
   /\ a.user_id = b.user_id
   /\ a.date = b.date
   /\ a.amount = b.amount
   /\ a.description = b.description

\* Ledger row t carries exactly what staged row r proposes.
CommitOf(t, r) ==
   /\ SameKey(t, r)
   /\ t.debit_account_id = r.suggested_debit_account_id
   /\ t.credit_account_id = r.suggested_credit_account_id
   /\ t.category = r.suggested_category

Inserted == transactions' \ transactions

BothAccounts(r) ==
   r.suggested_debit_account_id # NULL /\ r.suggested_credit_account_id # NULL

\* ------------------------------------------------------------------------
\* C1. With requests served one at a time, confirm never inserts a ledger
\* row whose (owner, date, amount, description) an existing ledger row
\* already has, and a confirm that directly follows a confirm of the same
\* owner and batch leaves the ledger unchanged.
\* ------------------------------------------------------------------------
C1_ConfirmNeverDuplicates ==
   [][ConfirmDone =>
         /\ \A t \in Inserted :
               ~ \E s \in transactions' : s # t /\ SameKey(s, t)
         /\ (last.op = "confirm" /\ last.user = last'.user /\ last.batch = last'.batch)
               => transactions' = transactions]_vars

\* The same for rows that have a description (holds).
C1_NoDuplicateWithDescription ==
   [][ConfirmDone =>
         \A t \in Inserted :
            t.description # NullText =>
               ~ \E s \in transactions' : s # t /\ SameKey(s, t)]_vars

\* ------------------------------------------------------------------------
\* C2. With two confirm requests interleaved statement by statement, each
\* staged row results in at most one ledger row: no two ledger rows carry
\* the same owner, date, amount and description (the statement files of the
\* model have no two rows alike, and no edit runs in SpecConcurrent).
\* ------------------------------------------------------------------------
C2_AtMostOneLedgerRowPerStagedRow ==
   \A t1, t2 \in transactions : SameKey(t1, t2) => t1 = t2

\* Rows of owner u and batch b (NoBatch: all) whose status is a value other
\* than 'rejected'.
Approved(u, b) ==
   {r \in InScope(u, b) : r.status # NULL /\ r.status # "rejected"}

ErrorIds == {last'.errors[i] : i \in 1..Len(last'.errors)}

C4_OnlyRejectedIsExcluded ==
   [][(ConfirmDone /\ last'.status \in {200, 400}) =>
         LET scope == InScope(last'.user, last'.batch)
             others == {r \in scope : r.status # "rejected"}
         IN  /\ \A r \in scope \ others : \A t \in Inserted :
                   CommitOf(t, r) => \E r2 \in others : CommitOf(t, r2)
             /\ last'.status = 400 <=> others = {}
             /\ last'.status = 200 =>
                   last'.imported + last'.skipped + Len(last'.errors)
                      = Cardinality(others)]_vars

\* The same with "any other status" read as any other value, NULL apart
\* (holds).
C4_OnlyRejectedOrNullIsExcluded ==
   [][(ConfirmDone /\ last'.status \in {200, 400}) =>
         LET scope == InScope(last'.user, last'.batch)
             others == Approved(last'.user, last'.batch)
         IN  /\ \A r \in scope \ others : \A t \in Inserted :
                   CommitOf(t, r) => \E r2 \in others : CommitOf(t, r2)
             /\ last'.status = 400 <=> others = {}
             /\ last'.status = 200 =>
                   last'.imported + last'.skipped + Len(last'.errors)
                      = Cardinality(others)]_vars

\* ------------------------------------------------------------------------
\* C5. No confirm, with or without a batch id, deletes a staged row that is
\* in rejected state.
\* ------------------------------------------------------------------------
C5_ConfirmKeepsRejected ==
   [][ConfirmDone =>
         \A r \in staged_transactions :
            r.status = "rejected" => r \in staged_transactions']_vars

\* The same for confirms without a batch id (holds).
C5_UnscopedConfirmKeepsRejected ==
   [][(ConfirmDone /\ last'.batch = NoBatch) =>
         \A r \in staged_transactions :
            r.status = "rejected" => r \in staged_transactions']_vars

\* ------------------------------------------------------------------------
\* C6. A non-rejected row in the scope of a confirm that the confirm did not
\* commit, because a suggested account was missing or because its ledger
\* insert failed, is still staged after the confirm.
\* ------------------------------------------------------------------------
C6_UncommittedRowsStayStaged ==
   [][ConfirmDone =>
         \A r \in Approved(last'.user, last'.batch) :
            (~BothAccounts(r) \/ r.id \in ErrorIds) => r \in staged_transactions']_vars

\* ------------------------------------------------------------------------
\* C7. Every ledger row (all are created by confirm) has a debit and a
\* credit account, the two differ, and its amount is strictly positive.
\* ------------------------------------------------------------------------
C7_LedgerRowsWellFormed ==
   \A t \in transactions :
      /\ t.debit_account_id # NULL
      /\ t.credit_account_id # NULL
      /\ t.debit_account_id # t.credit_account_id
      /\ t.amount # NullNum
      /\ t.amount > 0

\* The same where the ledger tables were created from schema.sql (holds).
C7_WellFormedUnderFullSchema ==
   ledgerSchema = "full" => C7_LedgerRowsWellFormed

\* A ledger row from which confirm derives a rule.
Teaches(t) ==
   /\ t.description # NullText
   /\ t.description # <<>>
   /\ t.category # Uncategorized
   /\ Len(rulePattern(t.description)) >= MinPatternLen

RulesFor(rules, u, p) == {r \in rules : r.user_id = u /\ r.pattern = p}

HitCount(rules, u, p) ==
   IF RulesFor(rules, u, p) = {} THEN 0
   ELSE (CHOOSE r \in RulesFor(rules, u, p) : TRUE).hit_count

\* The ledger rows a confirm step inserted that teach pattern p to owner u.
Teaching(u, p) ==
   {t \in Inserted : t.user_id = u /\ Teaches(t) /\ rulePattern(t.description) = p}

PatternsInPlay ==
   {rulePattern(t.description) : t \in {t \in Inserted : Teaches(t)}}
      \cup {r.pattern : r \in category_rules \cup category_rules'}

\* The effect of a confirm on the rules, the upserts of the ledger rows in
\* `failed` left aside: per owner and pattern, one upsert per teaching row in
\* the order of insertion.
RuleUpsertLaw(failed) ==
   \A u \in Users, p \in PatternsInPlay :
      LET L == {t \in Teaching(u, p) : t.transaction_id \notin failed}
      IN  IF L = {}
            THEN RulesFor(category_rules', u, p) = RulesFor(category_rules, u, p)
            ELSE LET lastT == CHOOSE t \in L :
                                 \A s \in L : s.transaction_id <= t.transaction_id
                 IN  RulesFor(category_rules', u, p) =
                        {[user_id |-> u, pattern |-> p,
                          category |-> lastT.category,
                          debit_account_id |-> lastT.debit_account_id,
                          credit_account_id |-> lastT.credit_account_id,
                          hit_count |-> HitCount(category_rules, u, p)
                                           + Cardinality(L)]}

OneRulePerPattern ==
   \A r1, r2 \in category_rules :
      (r1.user_id = r2.user_id /\ r1.pattern = r2.pattern) => r1 = r2

C9_ReinforcementOnlyOnInsert ==
   [][ConfirmDone =>
         /\ \A n \in category_rules' \ category_rules :
               Teaching(n.user_id, n.pattern) # {}
         /\ \A n \in category_rules' :
               n.hit_count - HitCount(category_rules, n.user_id, n.pattern)
                  <= Cardinality(Teaching(n.user_id, n.pattern))
         /\ \A r \in category_rules \ category_rules' :
               Teaching(r.user_id, r.pattern) # {}]_vars

\* A confirm has inserted an "Uncategorized" row whose description has a
\* pattern, and there is no rule.
C9_Witness ==
   /\ last.op = "confirm" /\ last.status = 200 /\ last.imported >= 1
   /\ \E t \in transactions :
         /\ t.category = Uncategorized
         /\ t.description # NullText
         /\ Len(rulePattern(t.description)) >= MinPatternLen
   /\ category_rules = {}

\* ------------------------------------------------------------------------
\* C10. The rule corpus is append/overwrite-only: no operation (table
\* initialisation, upload, list, single or bulk edit, clear, confirm)
\* removes a rule or lowers its hit_count, and every rule has
\* hit_count >= 1.
\* ------------------------------------------------------------------------
C10_RulesAppendOverwriteOnly ==
   /\ [][\A r \in category_rules :
            \E n \in category_rules' :
               /\ n.user_id = r.user_id
               /\ n.pattern = r.pattern
               /\ n.hit_count >= r.hit_count]_vars
   /\ [](\A r \in category_rules : r.hit_count >= 1)

\* The tables have been initialised again while rules existed.
C10_Witness ==
   /\ last.op = "init"
   /\ category_rules # {}

\* ------------------------------------------------------------------------
\* Properties of the classification engine (under SpecClassify).
\* ------------------------------------------------------------------------
Classified == last.op = "classify"

\* pattern is a case-insensitive substring of the description
Matches(pattern, description) ==
   /\ description # NullText
   /\ includes(toLowerCase(description), toLowerCase(pattern))

MatchingRules ==
   {r \in category_rules :
       r.user_id = last.user /\ Matches(r.pattern, last.candidate.description)}

TopRules ==
   {r \in MatchingRules : \A q \in MatchingRules : q.hit_count <= r.hit_count}

DefaultHits ==
   {i \in 1..Len(defaultRules) :
       \E k \in 1..Len(defaultRules[i].patterns) :
          Matches(defaultRules[i].patterns[k], last.candidate.description)}

\* ------------------------------------------------------------------------
\* C11. For a candidate matched by a learned rule with hit_count h >= 1 the
\* confidence (in hundredths) is min(95, 70 + 5h): never above 95, and 95
\* for h = 6 and every larger h.
\* ------------------------------------------------------------------------
C11_RuleConfidenceCapped ==
   (Classified /\ MatchingRules # {}) =>
      \E m \in TopRules :
         LET linear == 70 + 5 * m.hit_count
         IN  /\ last.out.confidence = IF linear < 95 THEN linear ELSE 95
             /\ last.out.confidence <= 95
             /\ m.hit_count >= 6 => last.out.confidence = 95

\* A candidate has been matched by a rule with hit_count above 6.
C11_Witness ==
   /\ Classified
   /\ \E m \in TopRules : m.hit_count > 6
   /\ last.out.confidence = 95

\* ------------------------------------------------------------------------
\* C12. Classification order: when a learned rule of the owner matches, the
\* category and the suggested accounts are those of a matching rule of
\* highest hit_count and the default table is not consulted; otherwise the
\* first matching entry of the default table gives the category with
\* confidence 50; otherwise the category is "Uncategorized" with
\* confidence 0.
\* ------------------------------------------------------------------------
C12_ClassificationOrder ==
   Classified =>
      IF MatchingRules # {}
        THEN \E m \in TopRules :
                /\ last.out.suggested_category = m.category
                /\ last.out.suggested_debit_account_id = m.debit_account_id
                /\ last.out.suggested_credit_account_id = m.credit_account_id
        ELSE IF DefaultHits # {}
               THEN LET first == CHOOSE i \in DefaultHits : \A j \in DefaultHits : i <= j
                    IN  /\ last.out.suggested_category = defaultRules[first].category
                        /\ last.out.confidence = 50
               ELSE /\ last.out.suggested_category = Uncategorized
                    /\ last.out.confidence = 0

\* Two rules of different hit_count match a description that the default
\* table would classify otherwise.
C12_Witness ==
   /\ Classified
   /\ Cardinality(MatchingRules) = 2
   /\ TopRules # MatchingRules
   /\ \E i \in DefaultHits : defaultRules[i].category # last.out.suggested_category

\* ------------------------------------------------------------------------
\* C13. Account resolution.
\* ------------------------------------------------------------------------
\* The source account id of the request is one of the owner's accounts.
SourceResolved ==
   /\ last.source # NULL
   /\ \E i \in 1..Len(accounts) :
         accounts[i].account_id = last.source /\ accounts[i].user_id = last.user

\* The owner's accounts of a type whose name contains the category text.
NamedAfterCategory(type) ==
   {accounts[i].account_id : i \in
       {k \in 1..Len(accounts) :
           /\ accounts[k].user_id = last.user
           /\ accounts[k].account_type = type
           /\ Matches(last.out.suggested_category, accounts[k].account_name)}}

OppositeSide(type, id) ==
   IF NamedAfterCategory(type) = {} THEN id = NULL
   ELSE id \in NamedAfterCategory(type)

SidesFromSource ==
   IF last.candidate.transaction_type = "debit"
     THEN /\ last.out.suggested_credit_account_id = last.source
          /\ OppositeSide("Expense", last.out.suggested_debit_account_id)
     ELSE /\ last.out.suggested_debit_account_id = last.source
          /\ OppositeSide("Income", last.out.suggested_credit_account_id)

\* C13 (as amended). When the source account supplied is one of the owner's
\* accounts and no learned rule matched, an outflow candidate gets the
\* source account as credit side and an inflow candidate as debit side, the
\* opposite side being an expense-type (outflow) or income-type (inflow)
\* account of the owner whose name contains the category text, or null;
\* a candidate matched by a learned rule keeps the accounts of the rule; a
\* source id that is not an account of the owner assigns nothing.
C13_SourceFillsWhatNoRuleGave ==
   Classified =>
      IF MatchingRules # {}
        THEN \E m \in TopRules :
                /\ last.out.suggested_debit_account_id = m.debit_account_id
                /\ last.out.suggested_credit_account_id = m.credit_account_id
        ELSE IF SourceResolved
               THEN SidesFromSource
               ELSE /\ last.out.suggested_debit_account_id = NULL
                    /\ last.out.suggested_credit_account_id = NULL

\* An inflow candidate no rule matched got the source account and an income
\* account found by category.
C13_Witness ==
   /\ Classified /\ SourceResolved /\ MatchingRules = {}
   /\ last.candidate.transaction_type = "credit"
   /\ last.out.suggested_debit_account_id = last.source
   /\ last.out.suggested_credit_account_id = "a3"

\* C13 as stated: with a source account of the owner supplied, every
\* outflow candidate has it as credit side and every inflow candidate as
\* debit side, the opposite side found by category or null.
C13_SourceAlwaysOneSide ==
   (Classified /\ SourceResolved) => SidesFromSource

\* ------------------------------------------------------------------------
\* C14. A per-row failure during confirm never aborts the batch (under
\* SpecErrors, where the staged rows have distinct keys): of the selected
\* rows, those without an account or with a ledger row of their key are
\* skipped, every other row whose insert the ledger accepts is committed,
\* the rest failed; imported and skipped count the first two kinds, at most
\* 5 error messages are returned, all naming failed rows, and
\* imported + skipped + failed is the number of rows selected.  Ledger rows
\* stay committed whatever happens later in the confirm.
\* ------------------------------------------------------------------------
C14_RowFailuresDoNotAbort ==
   [][ConfirmDone =>
         /\ transactions \subseteq transactions'
         /\ last'.status = 200 =>
               LET sel == Approved(last'.user, last'.batch)
                   skippedRows ==
                      {r \in sel : ~BothAccounts(r) \/ \E t \in transactions : SameKey(t, r)}
                   committed ==
                      {r \in sel \ skippedRows : \E t \in Inserted : CommitOf(t, r)}
                   failedRows == (sel \ skippedRows) \ committed
               IN  /\ \A r \in failedRows : r.amount = NullNum
                   /\ last'.imported = Cardinality(committed)
                   /\ Cardinality(Inserted) = Cardinality(committed)
                   /\ last'.skipped = Cardinality(skippedRows)
                   /\ Len(last'.errors) =
                         IF Cardinality(failedRows) < 5 THEN Cardinality(failedRows) ELSE 5
                   /\ ErrorIds \subseteq {r.id : r \in failedRows}
                   /\ last'.imported + last'.skipped + Cardinality(failedRows)
                         = Cardinality(sel)]_vars

\* A confirm has committed a row and reported 5 failures.
C14_Witness ==
   /\ last.op = "confirm" /\ last.status = 200
   /\ Len(last.errors) = 5
   /\ last.imported = 1
   /\ Cardinality(transactions) = 1

\* ------------------------------------------------------------------------
\* Properties of upload (under SpecUpload).
\* ------------------------------------------------------------------------
\* The request of slot s is answered in this step.
UploadFinishes(s) ==
   /\ reqs[s] # Idle
   /\ reqs'[s] = Idle
   /\ last'.op = "upload"

BatchRows(staged, batch_id) == {r \in staged : r.batch_id = batch_id}

\* ------------------------------------------------------------------------
\* C15. Upload answers with a 4xx status when extraction yields zero
\* transactions and also when the password of a protected PDF is missing or
\* incorrect, and in each case creates no staged row.
\* ------------------------------------------------------------------------
C15_EmptyOrLockedIsClientError ==
   [][\A s \in DOMAIN reqs :
         (/\ UploadFinishes(s)
          /\ \/ DecryptionFails(reqs[s].file, reqs[s].password)
             \/ (~reqs[s].file.corrupt /\ reqs[s].file.rows = <<>>))
         => /\ last'.status \in 400..499
            /\ BatchRows(staged_transactions', reqs[s].batch) = {}]_vars

\* What holds instead: 400 for zero transactions, 500 for a password that
\* is missing or incorrect, and no staged row in either case.
C15_EmptyIs400LockedIs500 ==
   [][\A s \in DOMAIN reqs :
         UploadFinishes(s) =>
            /\ DecryptionFails(reqs[s].file, reqs[s].password) =>
                  /\ last'.status = 500
                  /\ BatchRows(staged_transactions', reqs[s].batch) = {}
            /\ (~reqs[s].file.corrupt /\ reqs[s].file.rows = <<>>) =>
                  /\ last'.status = 400
                  /\ BatchRows(staged_transactions', reqs[s].batch) = {}]_vars

\* ------------------------------------------------------------------------
\* C16. Once an upload request that stored a temporary file has finished,
\* on every exit path (success, zero transactions, parse or decryption
\* failure, classification failure, staging failures), the temporary file
\* has been deleted; no file is left behind by a finished request.
\* ------------------------------------------------------------------------
C16_TemporaryFileDeleted ==
   /\ [][\A s \in DOMAIN reqs :
            UploadFinishes(s) => reqs[s].path \notin uploadDir']_vars
   /\ [](\A f \in uploadDir : \E s \in DOMAIN reqs : reqs[s] # Idle /\ reqs[s].path = f)

\* An upload has failed in extraction or classification, no request is in
\* flight and the uploads directory is empty.
C16_Witness ==
   /\ last.op = "upload" /\ last.status = 500
   /\ \A s \in DOMAIN reqs : reqs[s] = Idle
   /\ uploads = MaxUploadRequests
   /\ uploadDir = {}

\* ------------------------------------------------------------------------
\* C17. A successful upload stages its candidates with status pending under
\* one new batch id; a failed staging insert of one candidate does not
\* prevent the others from being staged; total_parsed is the number of
\* extracted candidates and total_staged the number of rows inserted for
\* the batch, so total_staged <= total_parsed.
\* ------------------------------------------------------------------------
C17_UploadStagesWhatInserts ==
   [][\A s \in DOMAIN reqs :
         (UploadFinishes(s) /\ last'.status = 200) =>
            LET p == reqs[s]
                rows == BatchRows(staged_transactions', last'.batch)
                from(r, c) == /\ r.date = c.date
                              /\ r.description = c.description
                              /\ r.amount = c.amount
                              /\ r.transaction_type = c.transaction_type
                cands == {p.file.rows[i] : i \in 1..Len(p.file.rows)}
            IN  /\ last'.batch = p.batch
                /\ \A r \in rows :
                      /\ r.status = "pending"
                      /\ r.user_id = p.user
                      /\ \E c \in cands : from(r, c)
                /\ \A c \in cands :
                      c.date # InvalidDate => \E r \in rows : from(r, c)
                /\ \A q \in DOMAIN reqs :
                      (q # s /\ reqs[q] # Idle) => reqs[q].batch # p.batch
                /\ last'.total_parsed = Len(p.file.rows)
                /\ last'.total_staged = Cardinality(rows)
                /\ last'.total_staged <= last'.total_parsed]_vars

\* An upload of two candidates has staged one: the insert of the other
\* failed.
C17_Witness ==
   /\ last.op = "upload" /\ last.status = 200
   /\ last.total_parsed = 2
   /\ last.total_staged = 1
   /\ Cardinality(BatchRows(staged_transactions, last.batch)) = 1

\* ------------------------------------------------------------------------
\* Properties of bulk edit (under Spec).
\* ------------------------------------------------------------------------
BulkDone == last'.op = "bulk" /\ last'.status = 200

\* The listed ids that name a staged row of the caller.
OwnListed ==
   {id \in last'.ids :
       \E r \in staged_transactions : r.id = id /\ r.user_id = last'.user}

\* ------------------------------------------------------------------------
\* C18. Bulk edit never fails as a whole because of one id: an id whose
\* update fails is skipped while the other listed ids are still updated,
\* and the returned count equals the number of listed ids for which a
\* staged row of the caller was updated.
\* ------------------------------------------------------------------------
C18_BulkCountIsRowsUpdated ==
   [][BulkDone =>
         /\ \A r \in staged_transactions :
               (r.id \in OwnListed) =>
                  \E n \in staged_transactions' :
                     n.id = r.id /\ \E b \in BulkBodies : n = ApplyBulk(r, b)
         /\ last'.updated = Cardinality(OwnListed)]_vars

\* What holds instead: the listed rows of the caller are updated whatever
\* other ids are listed, and the count is the number of listed ids whose
\* UPDATE statement ran without an error, whether it matched a row or not.
C18_BulkCountIsStatementsRun ==
   [][BulkDone =>
         /\ \A r \in staged_transactions :
               (r.id \in OwnListed) =>
                  \E n \in staged_transactions' :
                     n.id = r.id /\ \E b \in BulkBodies : n = ApplyBulk(r, b)
         /\ last'.updated = Cardinality(last'.ids \ {NotAnId})
         /\ last'.updated >= Cardinality(OwnListed)]_vars

\* ------------------------------------------------------------------------
\* Frame of batch-scoped requests (under SpecFrame).
\* ------------------------------------------------------------------------
\* Nothing but the staged rows of owner u in batch b, and the ledger rows
\* and rules of u, differs between the two states of the step.
FrameKept(u, b) ==
   /\ {r \in staged_transactions : r.user_id # u \/ r.batch_id # b}
         = {r \in staged_transactions' : r.user_id # u \/ r.batch_id # b}
   /\ {t \in transactions : t.user_id # u} = {t \in transactions' : t.user_id # u}
   /\ {r \in category_rules : r.user_id # u} = {r \in category_rules' : r.user_id # u}

\* A statement of the confirm request of slot s is executed in this step.
ConfirmActs(s) == reqs[s] # Idle /\ reqs'[s] # reqs[s]

\* The step is a clear request.
ClearActs == last'.op = "clear" /\ reqs' = reqs /\ uploads' = uploads

\* ------------------------------------------------------------------------
\* C19. A confirm or a clear given a batch id touches only the calling
\* owner's staged rows of that batch: the staged rows of the owner's other
\* batches and all staged rows, ledger rows and rules of other owners are
\* unchanged by each of its statements, also when uploads and confirms of
\* the same owner interleave.
\* ------------------------------------------------------------------------
C19_BatchRequestsKeepTheRest ==
   [][/\ \A s \in DOMAIN reqs :
            (ConfirmActs(s) /\ reqs[s].batch # NoBatch)
               => FrameKept(reqs[s].user, reqs[s].batch)
      /\ (ClearActs /\ last'.batch # NoBatch)
            => /\ FrameKept(last'.user, last'.batch)
               /\ transactions' = transactions
               /\ category_rules' = category_rules]_vars

\* A batch of u1 has been confirmed with a row imported while another batch
\* of u1 and the batch of u2 are staged.
C19_Witness ==
   /\ last.op = "confirm" /\ last.status = 200 /\ last.batch # NoBatch
   /\ last.imported >= 1
   /\ \E r \in staged_transactions : r.user_id = last.user /\ r.batch_id # last.batch
   /\ \E r \in staged_transactions : r.user_id # last.user
   /\ \E t \in transactions : t.user_id = last.user


\* ------------------------------------------------------------------------
\* Balances after a confirm (under Spec).
\* ------------------------------------------------------------------------
\* Accounts that are a side of a ledger row inserted in this step.
Affected ==
   {a \in AccountIds :
      \E t \in Inserted : t.debit_account_id = a \/ t.credit_account_id = a}

\* ------------------------------------------------------------------------
\* C20. After a confirm that inserted ledger rows completes, the stored
\* balance of every account of the owner, and so of every account the
\* inserted rows name, is the balance recomputed from the ledger: debits
\* less credits of the account.
\* ------------------------------------------------------------------------
C20_BalancesRecomputed ==
   [][(ConfirmDone /\ last'.status = 200 /\ Inserted # {})
         => \A a \in AccountIds :
               (AccountOwner(a) = last'.user \/ a \in Affected)
                  => current_balance'[a] = LedgerBalance(transactions', a)]_vars

\* What the handler does instead: no confirm changes a stored balance.
C20_ConfirmLeavesBalances ==
   [][ConfirmDone => current_balance' = current_balance]_vars

\* ------------------------------------------------------------------------
\* Page-layout extractor (parsePDF): positioned text items, grouped into
\* rows by their vertical position.
\* ------------------------------------------------------------------------
\* One text item of a page: allItems.push({ text, x, y, page })
Glyph(text, x, y, page) == [text |-> text, x |-> x, y |-> y, page |-> page]

Abs(n) == IF n < 0 THEN 0 - n ELSE n

\* The comparator of allItems.sort: a.page - b.page || a.y - b.y || a.x - b.x
PositionBefore(a, b) ==
   \/ a.page < b.page
   \/ a.page = b.page /\ a.y < b.y
   \/ a.page = b.page /\ a.y = b.y /\ a.x < b.x

\* Array.prototype.sort is stable: the place of element i is the number of
\* elements that go before it, equal elements keeping their order.
SortByPosition(items) ==
   LET place(i) ==
          1 + Cardinality({j \in 1..Len(items) :
                              \/ PositionBefore(items[j], items[i])
                              \/ ~PositionBefore(items[i], items[j]) /\ j < i})
   IN  [k \in 1..Len(items) |->
          items[CHOOSE i \in 1..Len(items) : place(i) = k]]

\* row.sort((a, b) => a.x - b.x)
SortByX(row) ==
   LET place(i) ==
          1 + Cardinality({j \in 1..Len(row) :
                              \/ row[j].x < row[i].x
                              \/ row[j].x = row[i].x /\ j < i})
   IN  [k \in 1..Len(row) |-> row[CHOOSE i \in 1..Len(row) : place(i) = k]]

\* Items within 4px of each other vertically are on the same row.
RowTolerance == 4

\* currentY is set when a row is opened and kept while items join the row.
RowY(currentY, y) == currentY

\* for (const item of allItems) { if (item.page !== currentPage ||
\* Math.abs(item.y - currentY) > 4) { push currentRow; open a row } else
\* currentRow.push(item) }; the last open row is pushed after the loop.
RECURSIVE groupRows(_, _, _, _, _)
groupRows(allItems, i, currentRow, currentY, currentPage) ==
   LET closed == IF Len(currentRow) > 0 THEN <<currentRow>> ELSE <<>> IN
   IF i > Len(allItems) THEN closed
   ELSE LET item == allItems[i] IN
        IF item.page # currentPage \/ Abs(item.y - currentY) > RowTolerance
          THEN closed \o groupRows(allItems, i + 1, <<item>>, item.y, item.page)
          ELSE groupRows(allItems, i + 1, Append(currentRow, item),
                         RowY(currentY, item.y), currentPage)

\* Array.prototype.join(sep) over texts
RECURSIVE joinWith(_, _)
joinWith(ws, sep) ==
   IF ws = <<>> THEN <<>>
   ELSE IF Len(ws) = 1 THEN Head(ws)
        ELSE Head(ws) \o sep \o joinWith(Tail(ws), sep)

\* rows.map(row => { row.sort(by x); return { items: row, text: texts joined
\* by two blanks } })
textRowsOf(rows) ==
   [r \in 1..Len(rows) |->
      LET row == SortByX(rows[r])
      IN  [items |-> row,
           text |-> joinWith([k \in 1..Len(row) |-> row[k].text], <<" ", " ">>)]]

\* ------------------------------------------------------------------------
\* parseDate and parseAmount.
\* ------------------------------------------------------------------------
Digits == {"0","1","2","3","4","5","6","7","8","9"}

DigitValue ==
   [c \in Digits |->
      CASE c = "0" -> 0 [] c = "1" -> 1 [] c = "2" -> 2 [] c = "3" -> 3
        [] c = "4" -> 4 [] c = "5" -> 5 [] c = "6" -> 6 [] c = "7" -> 7
        [] c = "8" -> 8 [] c = "9" -> 9]

\* \d{lo,hi} over the whole of s
IsDigits(s, lo, hi) ==
   Len(s) >= lo /\ Len(s) <= hi /\ \A i \in 1..Len(s) : s[i] \in Digits

\* [A-Za-z]{n} over the whole of s
IsLetters(s, n) ==
   Len(s) = n /\ \A i \in 1..Len(s) : s[i] \in LowerLetters \cup UpperLetters

\* parseInt of a string of digits
RECURSIVE parseInt(_)
parseInt(s) ==
   IF s = <<>> THEN 0
   ELSE parseInt(SubSeq(s, 1, Len(s) - 1)) * 10 + DigitValue[s[Len(s)]]

\* String.prototype.trim (the blank is the only white space of the model)
RECURSIVE trim(_)
trim(s) ==
   IF s = <<>> THEN s
   ELSE IF Head(s) = " " THEN trim(Tail(s))
   ELSE IF s[Len(s)] = " " THEN trim(SubSeq(s, 1, Len(s) - 1))
   ELSE s

\* The fields of s between the characters of seps: s matches
\* f1 [seps] f2 [seps] f3 with no other character of seps exactly when the
\* split has three fields.
RECURSIVE splitOn(_, _, _, _)
splitOn(s, seps, i, cur) ==
   IF i > Len(s) THEN <<cur>>
   ELSE IF s[i] \in seps
          THEN <<cur>> \o splitOn(s, seps, i + 1, <<>>)
          ELSE splitOn(s, seps, i + 1, Append(cur, s[i]))

\* String.prototype.padStart(2, '0')
padStart2(s) ==
   IF Len(s) >= 2 THEN s ELSE IF Len(s) = 1 THEN <<"0">> \o s ELSE <<"0", "0">>

months ==
   [name \in {<<"j","a","n">>, <<"f","e","b">>, <<"m","a","r">>, <<"a","p","r">>, <<"m","a","y">>, <<"j","u","n">>, <<"j","u","l">>, <<"a","u","g">>,
              <<"s","e","p">>, <<"o","c","t">>, <<"n","o","v">>, <<"d","e","c">>} |->
      CASE name = <<"j","a","n">> -> <<"0","1">> [] name = <<"f","e","b">> -> <<"0","2">> [] name = <<"m","a","r">> -> <<"0","3">>
        [] name = <<"a","p","r">> -> <<"0","4">> [] name = <<"m","a","y">> -> <<"0","5">> [] name = <<"j","u","n">> -> <<"0","6">>
        [] name = <<"j","u","l">> -> <<"0","7">> [] name = <<"a","u","g">> -> <<"0","8">> [] name = <<"s","e","p">> -> <<"0","9">>
        [] name = <<"o","c","t">> -> <<"1","0">> [] name = <<"n","o","v">> -> <<"1","1">> [] name = <<"d","e","c">> -> <<"1","2">>]

\* `${y}-${m}-${d}`
IsoDate(y, m, d) == y \o <<"-">> \o m \o <<"-">> \o d

\* What new Date(str) yields in the end, as parseDate uses it: null for a
\* string without a digit (Invalid Date); for any other string the result
\* is the JavaScript engine's, given as engine (null or a date text).
nativeDate(str, engine) ==
   IF \A i \in 1..Len(str) : str[i] \notin Digits THEN NullText ELSE engine

PivotYear == 50

\* const yr = m[3].length === 2 ? '20' + m[3] : m[3]
monthNameYear(y) == IF Len(y) = 2 THEN <<"2","0">> \o y ELSE y

\* const yr = parseInt(m[3]) > 50 ? '19' + m[3] : '20' + m[3]
numericYear(y) == (IF parseInt(y) > PivotYear THEN <<"1","9">> ELSE <<"2","0">>) \o y

\* parseDate(str): the date as YYYY-MM-DD text, or null.
parseDate(raw, engine) ==
   IF raw = NullText \/ raw = <<>> THEN NullText
   ELSE
   LET str == trim(raw)
       f == splitOn(str, {"/", "-", "."}, 1, <<>>)
       g == splitOn(str, {" ", "-"}, 1, <<>>)
   IN  IF Len(f) = 3 /\ IsDigits(f[1], 1, 2) /\ IsDigits(f[2], 1, 2) /\ IsDigits(f[3], 4, 4)
         THEN IsoDate(f[3], padStart2(f[2]), padStart2(f[1]))
       ELSE IF Len(f) = 3 /\ IsDigits(f[1], 1, 2) /\ IsDigits(f[2], 1, 2) /\ IsDigits(f[3], 2, 2)
         THEN IsoDate(numericYear(f[3]), padStart2(f[2]), padStart2(f[1]))
       ELSE IF Len(f) = 3 /\ IsDigits(f[1], 4, 4) /\ IsDigits(f[2], 1, 2) /\ IsDigits(f[3], 1, 2)
         THEN IsoDate(f[1], padStart2(f[2]), padStart2(f[3]))
       ELSE IF /\ Len(g) = 3 /\ IsDigits(g[1], 1, 2) /\ IsLetters(g[2], 3)
               /\ IsDigits(g[3], 2, 4)
               /\ toLowerCase(g[2]) \in DOMAIN months
         THEN IsoDate(monthNameYear(g[3]), months[toLowerCase(g[2])], padStart2(g[1]))
       ELSE nativeDate(str, engine)

\* ------------------------------------------------------------------------
\* parseDate applied to date texts: the text and the engine's answer for a
\* text only new Date() reads are drawn, then parseDate is called.
\* ------------------------------------------------------------------------
DateDays == {<<"1">>, <<"1","5">>, <<"3","1">>}
DateMonths == {<<"2">>, <<"1","2">>}
DateMonthNames == {<<"J","a","n">>, <<"f","e","b">>, <<"D","E","C">>}
TwoDigitYears == {<<"0","0">>, <<"2","4">>, <<"5","0">>, <<"5","1">>, <<"9","9">>}
DateYears == TwoDigitYears \cup {<<"2","0","2","4">>}

NumericDateTexts ==
   {d \o s \o m \o s \o y : d \in DateDays, m \in DateMonths, y \in DateYears,
                            s \in {<<"/">>, <<"-">>, <<".">>}}
   \cup {<<"1","5","/","0","2","-","9","9">>, <<"2","0","2","4","-","0","1","-","1","5">>, <<"2","0","2","4","/","1","/","5">>, <<"1","/","2","/","2","0","2">>, <<" ","1","5","/","0","2","/","2","4"," ">>}

MonthNameDateTexts ==
   {d \o s \o m \o s \o y : d \in DateDays, m \in DateMonthNames, y \in DateYears,
                            s \in {<<" ">>, <<"-">>}}
   \cup {<<"1","5"," ","F","o","o"," ","2","4">>, <<"1","5"," ","J","a","n","-","9","9">>, <<"1","5"," ","J","a","n"," ","2","0","2">>}

DateTexts == NumericDateTexts \cup MonthNameDateTexts \cup {NullText, <<>>, <<"a","b","c">>, <<" "," ">>}

\* What the engine's Date may make of a text: nothing, or some date.
EngineDates == {NullText, <<"2","0","0","1","-","0","1","-","0","1">>}

InitDates ==
   /\ importTables = "uuid"
   /\ ledgerSchema = "full"
   /\ staged_transactions = {}
   /\ transactions = {}
   /\ category_rules = {}
   /\ nextId = 1
   /\ nextBatch = 1
   /\ nextTx = 1
   /\ uploads = 0
   /\ edits = 0
   /\ reqs = [s \in {1, 2} |-> Idle]
   /\ uploadDir = {}
   /\ current_balance = [a \in AccountIds |-> 0]
   /\ \E str \in DateTexts, engine \in EngineDates :
         last = [op |-> "date", str |-> str, engine |-> engine]

\* parseDate(str); the call and its result are kept in last.
ParseDate ==
   /\ last.op = "date"
   /\ last' = [op |-> "parseDate", str |-> last.str,
               out |-> parseDate(last.str, last.engine)]
   /\ UNCHANGED <<importTables, ledgerSchema, staged_transactions, transactions,
                  category_rules, nextId, nextBatch, nextTx, uploads, edits, reqs,
                  uploadDir, current_balance>>

SpecDates == InitDates /\ [][ParseDate]_vars

\* ------------------------------------------------------------------------
\* Two-digit years (under SpecDates).
\* ------------------------------------------------------------------------
\* The year a two-digit year stands for: 19yy above 50, else 20yy.
PivotedYear(yy) == (IF parseInt(yy) > 50 THEN <<"1","9">> ELSE <<"2","0">>) \o yy

TwoDigits(s) == IF Len(s) = 1 THEN <<"0">> \o s ELSE s

MonthNumber(name) ==
   CASE toLowerCase(name) = <<"j","a","n">> -> <<"0","1">>
     [] toLowerCase(name) = <<"f","e","b">> -> <<"0","2">>
     [] toLowerCase(name) = <<"d","e","c">> -> <<"1","2">>

\* ------------------------------------------------------------------------
\* C25. For every accepted date spelling with a two-digit year (day, month
\* and yy separated by '/', '-' or '.', and day, three-letter month name
\* and yy separated by a blank or '-'), parseDate returns YYYY-MM-DD with
\* the year 19yy when yy > 50 and 20yy otherwise.
\* ------------------------------------------------------------------------
C25_TwoDigitYearPivot ==
   last.op = "parseDate" =>
      /\ \A d \in DateDays, m \in DateMonths, y \in TwoDigitYears :
         \A s1, s2 \in {<<"/">>, <<"-">>, <<".">>} :
            last.str = d \o s1 \o m \o s2 \o y
               => last.out = PivotedYear(y) \o <<"-">> \o TwoDigits(m) \o <<"-">> \o TwoDigits(d)
      /\ \A d \in DateDays, m \in DateMonthNames, y \in TwoDigitYears :
         \A s1, s2 \in {<<" ">>, <<"-">>} :
            last.str = d \o s1 \o m \o s2 \o y
               => last.out = PivotedYear(y) \o <<"-">> \o MonthNumber(m) \o <<"-">> \o TwoDigits(d)

\* The numeric spellings alone follow the pivot.
C25_NumericTwoDigitYearPivot ==
   last.op = "parseDate" =>
      \A d \in DateDays, m \in DateMonths, y \in TwoDigitYears :
      \A s1, s2 \in {<<"/">>, <<"-">>, <<".">>} :
         last.str = d \o s1 \o m \o s2 \o y
            => last.out = PivotedYear(y) \o <<"-">> \o TwoDigits(m) \o <<"-">> \o TwoDigits(d)

\* ------------------------------------------------------------------------
\* parseAmount. Amounts are held in hundredths; the amount texts of the
\* model carry at most two fraction digits, no exponent and no 'Infinity'.
\* ------------------------------------------------------------------------
AmountScale == 100

\* String.prototype.replace(/[...]/g, '')
RECURSIVE removeChars(_, _)
removeChars(s, cs) ==
   IF s = <<>> THEN s
   ELSE IF Head(s) \in cs THEN removeChars(Tail(s), cs)
        ELSE <<Head(s)>> \o removeChars(Tail(s), cs)

\* The length of the longest run of characters of cs in s from position i.
RECURSIVE runLength(_, _, _)
runLength(s, i, cs) ==
   IF i > Len(s) \/ s[i] \notin cs THEN 0 ELSE 1 + runLength(s, i + 1, cs)

\* parseFloat: sign, digits, a point and digits, read from the start of s
\* as far as they go; NaN when no digit was read.
parseFloat(s) ==
   LET signed == Len(s) > 0 /\ s[1] \in {"+", "-"}
       p == IF signed THEN 2 ELSE 1
       n == runLength(s, p, Digits)
       pointed == p + n <= Len(s) /\ s[p + n] = "."
       m == IF pointed THEN runLength(s, p + n + 1, Digits) ELSE 0
       frac == SubSeq(s, p + n + 1, p + n + m) \o <<"0", "0">>
       magnitude == parseInt(SubSeq(s, p, p + n - 1)) * AmountScale
                       + parseInt(SubSeq(frac, 1, 2))
   IN  [nan |-> n = 0 /\ m = 0,
        value |-> IF signed /\ s[1] = "-" THEN 0 - magnitude ELSE magnitude]

\* Variant: the sign is kept.
parseAmountSigned(str) ==
   IF str = NullText \/ str = <<>> THEN 0
   ELSE LET num == parseFloat(removeChars(removeChars(trim(str), {"₹", " "}), {","}))
        IN  IF num.nan THEN 0 ELSE num.value

\* parseAmount(str)
parseAmount(str) ==
   IF str = NullText \/ str = <<>> THEN 0
   ELSE LET num == parseFloat(removeChars(removeChars(trim(str), {"₹", " "}), {","}))
        IN  IF num.nan THEN 0 ELSE Abs(num.value)

\* ------------------------------------------------------------------------
\* parsePDF: bank type, header row, column positions.
\* ------------------------------------------------------------------------
\* fullText.includes('credit card') || fullText.includes('card number') ||
\* fullText.includes('card no'): the '_cc' suffix of bankType
isCreditCard(textRows) ==
   LET fullText == toLowerCase(joinWith([r \in 1..Len(textRows) |-> textRows[r].text],
                                        <<" ">>))
   IN  \/ includes(fullText, <<"c","r","e","d","i","t"," ","c","a","r","d">>)
       \/ includes(fullText, <<"c","a","r","d"," ","n","u","m","b","e","r">>)
       \/ includes(fullText, <<"c","a","r","d"," ","n","o">>)

headerKeywords ==
   <<<<"d","a","t","e">>, <<"n","a","r","r","a","t","i","o","n">>, <<"d","e","s","c","r","i","p","t","i","o","n">>, <<"p","a","r","t","i","c","u","l","a","r","s">>, <<"w","i","t","h","d","r","a","w","a","l">>,
     <<"d","e","p","o","s","i","t">>, <<"d","e","b","i","t">>, <<"c","r","e","d","i","t">>, <<"b","a","l","a","n","c","e">>, <<"c","h","q">>, <<"r","e","f">>>>

\* headerKeywords.filter(k => rowText.includes(k)).length
matchCount(text) ==
   Cardinality({k \in 1..Len(headerKeywords) :
                   includes(toLowerCase(text), headerKeywords[k])})

MinHeaderKeywords == 3

\* Variant: two keywords make a header.
IsHeaderTwo(text) == matchCount(text) >= MinHeaderKeywords - 1

\* if (matchCount >= 3)
IsHeader(text) == matchCount(text) >= MinHeaderKeywords

\* The index (from 0) of the first row that is a header, or -1.
RECURSIVE findHeader(_, _)
findHeader(textRows, i) ==
   IF i >= Len(textRows) THEN 0 - 1
   ELSE IF IsHeader(textRows[i + 1].text) THEN i
        ELSE findHeader(textRows, i + 1)

\* !colMap.x for a position: null and 0 are falsy.
NoPosition(x) == x = NullNum \/ x = 0

\* One header item in the chain of tests that fills colMap.
mapItem(colMap, item) ==
   LET t == toLowerCase(item.text)
       has(w) == includes(t, w)
   IN  IF has(<<"d","a","t","e">>) /\ ~has(<<"v","a","l","u","e">>) /\ NoPosition(colMap.date)
         THEN [colMap EXCEPT !.date = item.x]
       ELSE IF (has(<<"v","a","l","u","e">>) /\ has(<<"d","t">>)) \/ (has(<<"v","a","l","u","e">>) /\ has(<<"d","a","t","e">>))
         THEN [colMap EXCEPT !.valueDate = item.x]
       ELSE IF has(<<"n","a","r","r","a","t","i","o","n">>) \/ has(<<"d","e","s","c","r","i","p","t","i","o","n">>) \/ has(<<"p","a","r","t","i","c","u","l","a","r","s">>)
               \/ has(<<"d","e","t","a","i","l">>)
         THEN [colMap EXCEPT !.narration = item.x]
       ELSE IF has(<<"c","h","q">>) \/ has(<<"r","e","f">>) \/ has(<<"c","h","e","q","u","e">>)
         THEN [colMap EXCEPT !.ref = item.x]
       ELSE IF has(<<"w","i","t","h","d","r","a","w","a","l">>) \/ has(<<"d","e","b","i","t">>) \/ t = <<"d","r">> \/ t = <<"d","r",".">>
         THEN [colMap EXCEPT !.withdrawal = item.x]
       ELSE IF has(<<"d","e","p","o","s","i","t">>) \/ has(<<"c","r","e","d","i","t">>) \/ t = <<"c","r">> \/ t = <<"c","r",".">>
         THEN [colMap EXCEPT !.deposit = item.x]
       ELSE IF has(<<"b","a","l","a","n","c","e">>) \/ has(<<"c","l","o","s","i","n","g">>)
         THEN [colMap EXCEPT !.balance = item.x]
       ELSE colMap

RECURSIVE mapItems(_, _, _)
mapItems(colMap, headerItems, i) ==
   IF i > Len(headerItems) THEN colMap
   ELSE mapItems(mapItem(colMap, headerItems[i]), headerItems, i + 1)

\* colMap from the header items, with the two 'amount' columns standing in
\* for withdrawal and deposit when neither was found.
columnMap(headerItems) ==
   LET empty == [date |-> NullNum, narration |-> NullNum, ref |-> NullNum,
                 valueDate |-> NullNum, withdrawal |-> NullNum,
                 deposit |-> NullNum, balance |-> NullNum]
       colMap == mapItems(empty, headerItems, 1)
       amtX == {headerItems[i].x : i \in
                  {k \in 1..Len(headerItems) :
                      \/ includes(toLowerCase(headerItems[k].text), <<"a","m","o","u","n","t">>)
                      \/ includes(toLowerCase(headerItems[k].text), <<"a","m","t">>)}}
       amtCount == Cardinality({k \in 1..Len(headerItems) :
                      \/ includes(toLowerCase(headerItems[k].text), <<"a","m","o","u","n","t">>)
                      \/ includes(toLowerCase(headerItems[k].text), <<"a","m","t">>)})
   IN  IF NoPosition(colMap.withdrawal) /\ NoPosition(colMap.deposit) /\ amtCount >= 2
         THEN [colMap EXCEPT
                 !.withdrawal = CHOOSE x \in amtX : \A z \in amtX : x <= z,
                 !.deposit = CHOOSE x \in amtX : \A z \in amtX : x >= z]
         ELSE colMap

\* ------------------------------------------------------------------------
\* parsePDF: transactions of the rows below the header.
\* ------------------------------------------------------------------------
DateSeparators == {"/", "-", "."}

\* dateRegex = /^\d{1,2}[\/\-\.]\d{1,2}[\/\-\.]\d{2,4}$/
dateRegexTest(t) ==
   LET f == splitOn(t, DateSeparators, 1, <<>>)
   IN  Len(f) = 3 /\ IsDigits(f[1], 1, 2) /\ IsDigits(f[2], 1, 2) /\ IsDigits(f[3], 2, 4)

\* /^[\d,]+\.\d{2}$/
amountRegexTest(t) ==
   LET n == runLength(t, 1, Digits \cup {","})
   IN  /\ n >= 1
       /\ Len(t) = n + 3
       /\ t[n + 1] = "."
       /\ t[n + 2] \in Digits /\ t[n + 3] \in Digits

\* numericRegex.test(t.replace(/,/g, '').trim()) ||
\* numericRegex.test(t.replace(/[,\s]/g, ''))
numericRegexTest(t) ==
   \/ amountRegexTest(trim(removeChars(t, {","})))
   \/ amountRegexTest(removeChars(t, {",", " "}))

\* The first text of a row that ends the continuation lines.
isSummary(first) ==
   LET t == toLowerCase(first)
   IN  \/ includes(t, <<"t","o","t","a","l">>) \/ includes(t, <<"o","p","e","n","i","n","g">>)
       \/ includes(t, <<"c","l","o","s","i","n","g">>) \/ includes(t, <<"s","t","a","t","e","m","e","n","t">>)

\* The index (from 0) of the first row at or after j that starts with a date
\* or a summary word: the rows before it continue the transaction.
RECURSIVE continuationEnd(_, _)
continuationEnd(textRows, j) ==
   IF j >= Len(textRows) THEN j
   ELSE LET nextFirst == textRows[j + 1].items[1].text
        IN  IF dateRegexTest(nextFirst) \/ isSummary(nextFirst) THEN j
            ELSE continuationEnd(textRows, j + 1)

\* txItems = items of row i and of its continuation rows up to j
RECURSIVE concatItems(_, _, _)
concatItems(textRows, i, j) ==
   IF i >= j THEN <<>>
   ELSE textRows[i + 1].items \o concatItems(textRows, i + 1, j)

ColumnNames == <<"withdrawal", "deposit", "balance">>

\* The column nearest to x among the mapped ones, the first of
\* withdrawal, deposit, balance on equal distance; "" when none is mapped.
closestColumn(colMap, x) ==
   LET mapped == {k \in 1..3 : ~NoPosition(colMap[ColumnNames[k]])}
       dist(k) == Abs(x - colMap[ColumnNames[k]])
   IN  IF mapped = {} THEN ""
       ELSE ColumnNames[CHOOSE k \in mapped :
                           \A m \in mapped : dist(k) < dist(m) \/ (dist(k) = dist(m) /\ k <= m)]

RefReach == 60
ValueDateReach == 40
MinRefDigits == 5

\* One item of the transaction, in the chain of tests of the loop; acc holds
\* narrationParts, withdrawal, deposit, balance and refNo.
placeItem(colMap, acc, item) ==
   LET t == item.text
       val == parseAmount(t)
       closest == closestColumn(colMap, item.x)
   IN  IF numericRegexTest(t)
         THEN IF val = 0 THEN acc
              ELSE IF closest = "withdrawal" THEN [acc EXCEPT !.withdrawal = val]
              ELSE IF closest = "deposit" THEN [acc EXCEPT !.deposit = val]
              ELSE IF closest = "balance" THEN [acc EXCEPT !.balance = val]
              ELSE acc
       ELSE IF ~NoPosition(colMap.ref) /\ Abs(item.x - colMap.ref) < RefReach
         THEN IF runLength(t, 1, Digits) >= MinRefDigits
                THEN [acc EXCEPT !.refNo = trim(acc.refNo \o <<" ">> \o t)]
                ELSE [acc EXCEPT !.narrationParts = Append(acc.narrationParts, t)]
       ELSE IF /\ ~NoPosition(colMap.valueDate)
               /\ Abs(item.x - colMap.valueDate) < ValueDateReach
               /\ dateRegexTest(t)
         THEN acc
       ELSE [acc EXCEPT !.narrationParts = Append(acc.narrationParts, t)]

\* The items after the date item, placed one by one.
RECURSIVE placeItems(_, _, _, _)
placeItems(colMap, acc, txItems, k) ==
   IF k > Len(txItems) THEN acc
   ELSE placeItems(colMap, placeItem(colMap, acc, txItems[k]), txItems, k + 1)

\* .replace(/\s+/g, ' ').trim()
collapse(s) == joinSpace(splitRuns(s, 1, <<>>))

\* if (amount > 0 ...)
AmountFound(amount) == amount > 0

\* The rows from index i (from 0) on: the transactions found, each with the
\* index of the row it starts at.
RECURSIVE dataRows(_, _, _, _)
dataRows(textRows, colMap, i, engine) ==
   IF i >= Len(textRows) THEN <<>>
   ELSE
   LET items == textRows[i + 1].items
       firstItemText == items[1].text
       date == parseDate(firstItemText, engine)
       j == continuationEnd(textRows, i + 1)
       txItems == concatItems(textRows, i, j)
       acc == placeItems(colMap,
                         [narrationParts |-> <<>>, withdrawal |-> 0, deposit |-> 0,
                          balance |-> NullNum, refNo |-> <<>>],
                         txItems, 2)
       description == collapse(joinSpace(acc.narrationParts))
       amount == IF acc.withdrawal > 0 THEN acc.withdrawal
                 ELSE IF acc.deposit > 0 THEN acc.deposit ELSE 0
       txType == IF acc.withdrawal > 0 THEN "debit"
                 ELSE IF acc.deposit > 0 THEN "credit" ELSE "debit"
       tx == [date |-> date,
              description |-> IF acc.refNo # <<>>
                                THEN description \o <<" ","[","R","e","f",":"," ">> \o acc.refNo \o <<"]">>
                                ELSE description,
              amount |-> amount, transaction_type |-> txType,
              balance |-> acc.balance, row |-> i]
   IN  IF ~dateRegexTest(firstItemText) \/ date = NullText
         THEN dataRows(textRows, colMap, i + 1, engine)
         ELSE (IF AmountFound(amount) /\ Len(description) > 0 THEN <<tx>> ELSE <<>>)
                 \o dataRows(textRows, colMap, j, engine)

\* ------------------------------------------------------------------------
\* parsePDFLineBased: the extractor used when no header row is found.
\* ------------------------------------------------------------------------
charAt(s, k) == IF k >= 1 /\ k <= Len(s) THEN s[k] ELSE ""

\* dateRegex of the line-based extractor, matched at the start of the line:
\* the length of the match, or 0 when the line does not start with a date.
lineDateLength(line) ==
   LET n1 == runLength(line, 1, Digits)
       n2 == runLength(line, n1 + 2, Digits)
       n3 == runLength(line, n1 + n2 + 3, Digits)
       k3 == runLength(line, n1 + 6, Digits)
   IN  IF n1 < 1 \/ n1 > 2 THEN 0
       ELSE IF /\ charAt(line, n1 + 1) \in DateSeparators
               /\ n2 >= 1 /\ n2 <= 2
               /\ charAt(line, n1 + n2 + 2) \in DateSeparators
               /\ n3 >= 2
         THEN n1 + n2 + 2 + Min(n3, 4)
       ELSE IF /\ charAt(line, n1 + 1) \in {" ", "-"}
               /\ runLength(line, n1 + 2, LowerLetters \cup UpperLetters) = 3
               /\ charAt(line, n1 + 5) \in {" ", "-"}
               /\ k3 >= 2
         THEN n1 + 5 + Min(k3, 4)
       ELSE 0

\* The matches of /[\d,]+\.\d{2}/g in s from position p on, each with the
\* position it starts at.
RECURSIVE amountMatches(_, _)
amountMatches(s, p) ==
   IF p > Len(s) THEN <<>>
   ELSE IF s[p] \notin Digits \cup {","} THEN amountMatches(s, p + 1)
   ELSE LET n == runLength(s, p, Digits \cup {","})
        IN  IF /\ charAt(s, p + n) = "."
               /\ charAt(s, p + n + 1) \in Digits
               /\ charAt(s, p + n + 2) \in Digits
              THEN <<[text |-> SubSeq(s, p, p + n + 2), index |-> p]>>
                      \o amountMatches(s, p + n + 3)
              ELSE amountMatches(s, p + n)

\* /\b(cr|credit|refund|cashback|reversal|payment received)\b/i
creditMarkers ==
   {<<"c","r">>, <<"c","r","e","d","i","t">>, <<"r","e","f","u","n","d">>, <<"c","a","s","h","b","a","c","k">>, <<"r","e","v","e","r","s","a","l">>, <<"p","a","y","m","e","n","t"," ","r","e","c","e","i","v","e","d">>}

WordChars == LowerLetters \cup UpperLetters \cup Digits \cup {"_"}

hasCreditMarker(line) ==
   LET l == toLowerCase(line)
   IN  \E w \in creditMarkers :
       \E k \in 0..(Len(l) - Len(w)) :
          /\ \A j \in 1..Len(w) : l[k + j] = w[j]
          /\ charAt(l, k) \notin WordChars
          /\ charAt(l, k + Len(w) + 1) \notin WordChars

MinDescription == 5

\* The amount, direction and balance chosen from the amounts of a line.
pickAmounts(amounts) ==
   IF Len(amounts) >= 3
     THEN IF amounts[1] > 0 /\ (Len(amounts) < 3 \/ amounts[2] = 0)
            THEN [amount |-> amounts[1], txType |-> "debit",
                  balance |-> amounts[Len(amounts)]]
          ELSE IF amounts[2] > 0
            THEN [amount |-> amounts[2], txType |-> "credit",
                  balance |-> amounts[Len(amounts)]]
          ELSE [amount |-> amounts[1], txType |-> "debit",
                balance |-> amounts[Len(amounts)]]
   ELSE IF Len(amounts) = 2
     THEN [amount |-> amounts[1], txType |-> "debit", balance |-> amounts[2]]
   ELSE [amount |-> amounts[1], txType |-> "debit", balance |-> NullNum]

\* The rows from index i (from 0) on, one line at a time.
RECURSIVE parsePDFLineBased(_, _, _, _)
parsePDFLineBased(textRows, cc, i, engine) ==
   IF i >= Len(textRows) THEN <<>>
   ELSE
   LET line == textRows[i + 1].text
       n == lineDateLength(line)
       date == parseDate(SubSeq(line, 1, n), engine)
       afterDate == SubSeq(line, n + 1, Len(line))
       found == amountMatches(afterDate, 1)
       amounts == [k \in 1..Len(found) |-> parseAmount(found[k].text)]
       first == collapse(SubSeq(afterDate, 1, found[1].index - 1))
       description ==
          IF /\ Len(first) < MinDescription
             /\ i + 1 < Len(textRows)
             /\ lineDateLength(textRows[i + 2].text) = 0
            THEN trim(first \o <<" ">> \o textRows[i + 2].text)
            ELSE first
       picked == pickAmounts(amounts)
       txType == IF cc THEN (IF hasCreditMarker(line) THEN "credit" ELSE "debit")
                 ELSE picked.txType
       tx == [date |-> date, description |-> description, amount |-> picked.amount,
              transaction_type |-> txType, balance |-> picked.balance, row |-> i]
   IN  (IF n = 0 \/ date = NullText \/ Len(found) = 0 THEN <<>>
        ELSE IF picked.amount > 0 THEN <<tx>> ELSE <<>>)
          \o parsePDFLineBased(textRows, cc, i + 1, engine)

\* ------------------------------------------------------------------------
\* parsePDF, from the text items of the opened document on. Besides the
\* transactions the result keeps the sorted items, the rows, the header
\* index and the extractor used; row in a transaction is the index of the
\* row it was read from.
\* ------------------------------------------------------------------------
parsePDF(allItems, engine) ==
   LET sorted == SortByPosition(allItems)
       rows == groupRows(sorted, 1, <<>>, 0 - 999, 0 - 1)
       textRows == textRowsOf(rows)
       cc == isCreditCard(textRows)
       headerRowIdx == findHeader(textRows, 0)
   IN  [sorted |-> sorted, rows |-> rows, textRows |-> textRows, cc |-> cc,
        headerRowIdx |-> headerRowIdx,
        extractor |-> IF headerRowIdx < 0 THEN "parsePDFLineBased" ELSE "columns",
        transactions |->
           IF headerRowIdx < 0
             THEN parsePDFLineBased(textRows, cc, 0, engine)
             ELSE dataRows(textRows, columnMap(textRows[headerRowIdx + 1].items),
                           headerRowIdx + 1, engine)]

\* ------------------------------------------------------------------------
\* parseCSV, from the rows Papa.parse returns (header: true): the header
\* names and, per row, the cell texts in header order (a missing cell is
\* null).
\* ------------------------------------------------------------------------
\* findCol(...names): the first name, in the order given, that some header
\* includes, gives the column (the first such header); 0 for null.
RECURSIVE findCol(_, _)
findCol(headers, names) ==
   IF names = <<>> THEN 0
   ELSE LET hits == {h \in 1..Len(headers) :
                        includes(trim(toLowerCase(headers[h])), toLowerCase(Head(names)))}
        IN  IF hits # {} THEN CHOOSE h \in hits : \A g \in hits : h <= g
            ELSE findCol(headers, Tail(names))

dateNames == <<<<"d","a","t","e">>, <<"t","x","n"," ","d","a","t","e">>, <<"t","r","a","n","s","a","c","t","i","o","n"," ","d","a","t","e">>, <<"v","a","l","u","e"," ","d","a","t","e">>, <<"p","o","s","t","i","n","g"," ","d","a","t","e">>>>
descNames == <<<<"d","e","s","c","r","i","p","t","i","o","n">>, <<"n","a","r","r","a","t","i","o","n">>, <<"p","a","r","t","i","c","u","l","a","r","s">>, <<"d","e","t","a","i","l","s">>,
               <<"t","r","a","n","s","a","c","t","i","o","n"," ","r","e","m","a","r","k","s">>, <<"r","e","m","a","r","k","s">>>>
debitNames == <<<<"d","e","b","i","t">>, <<"w","i","t","h","d","r","a","w","a","l">>, <<"d","r">>, <<"w","i","t","h","d","r","a","w","a","l"," ","a","m","t">>, <<"w","i","t","h","d","r","a","w","a","l"," ","a","m","o","u","n","t">>>>
creditNames == <<<<"c","r","e","d","i","t">>, <<"d","e","p","o","s","i","t">>, <<"c","r">>, <<"d","e","p","o","s","i","t"," ","a","m","t">>, <<"d","e","p","o","s","i","t"," ","a","m","o","u","n","t">>>>
amountNames == <<<<"a","m","o","u","n","t">>, <<"t","r","a","n","s","a","c","t","i","o","n"," ","a","m","o","u","n","t">>>>
balanceNames == <<<<"b","a","l","a","n","c","e">>, <<"c","l","o","s","i","n","g"," ","b","a","l","a","n","c","e">>, <<"a","v","a","i","l","a","b","l","e"," ","b","a","l","a","n","c","e">>, <<"r","u","n","n","i","n","g"," ","b","a","l","a","n","c","e">>>>
typeNames == <<<<"t","y","p","e">>, <<"c","r","/","d","r">>, <<"t","r","a","n","s","a","c","t","i","o","n"," ","t","y","p","e">>>>

\* row[col], with '' for a column that was not found
cell(row, col) == IF col = 0 THEN <<>> ELSE row[col]

\* (row[col] || '')
orEmpty(text) == IF text = NullText THEN <<>> ELSE text

\* Variant: the inflow column is looked at first.
CreditFirst(dr, cr) ==
   IF cr > 0 THEN [skip |-> FALSE, amount |-> cr, txType |-> "credit"]
   ELSE IF dr > 0 THEN [skip |-> FALSE, amount |-> dr, txType |-> "debit"]
   ELSE [skip |-> TRUE, amount |-> 0, txType |-> "debit"]

\* if (dr > 0) { amount = dr; txType = 'debit' } else if (cr > 0)
\* { amount = cr; txType = 'credit' } else continue
separateColumns(dr, cr) ==
   IF dr > 0 THEN [skip |-> FALSE, amount |-> dr, txType |-> "debit"]
   ELSE IF cr > 0 THEN [skip |-> FALSE, amount |-> cr, txType |-> "credit"]
   ELSE [skip |-> TRUE, amount |-> 0, txType |-> "debit"]

\* The single amount column: the direction from the type column, else from
\* the sign of the amount text.
singleColumn(amountText, typed, typeText) ==
   LET amount == parseAmount(amountText)
       t == trim(toLowerCase(orEmpty(typeText)))
       raw == parseFloat(removeChars(orEmpty(amountText), {"₹", ",", " "}))
   IN  [skip |-> amount = 0, amount |-> amount,
        txType |-> IF typed
                     THEN (IF t \in {<<"c","r">>, <<"c","r","e","d","i","t">>, <<"c">>} THEN "credit" ELSE "debit")
                     ELSE (IF ~raw.nan /\ raw.value >= 0 THEN "credit" ELSE "debit")]

\* The loop over result.data from row k on; row (from 0) in a transaction is
\* the index of the data row it was read from.
RECURSIVE csvRows(_, _, _, _)
csvRows(data, cols, k, engine) ==
   IF k > Len(data) THEN <<>>
   ELSE
   LET row == data[k]
       date == parseDate(cell(row, cols.date), engine)
       desc == IF cols.desc = 0 THEN <<>> ELSE trim(orEmpty(row[cols.desc]))
       picked == IF cols.debit # 0 /\ cols.credit # 0
                   THEN separateColumns(parseAmount(row[cols.debit]),
                                        parseAmount(row[cols.credit]))
                 ELSE IF cols.amount # 0
                   THEN singleColumn(row[cols.amount], cols.type # 0,
                                     cell(row, cols.type))
                 ELSE [skip |-> TRUE, amount |-> 0, txType |-> "debit"]
       tx == [date |-> date, description |-> desc, amount |-> picked.amount,
              transaction_type |-> picked.txType,
              balance |-> IF cols.balance = 0 THEN NullNum
                          ELSE parseAmount(row[cols.balance]),
              row |-> k - 1]
   IN  (IF date = NullText \/ picked.skip THEN <<>> ELSE <<tx>>)
          \o csvRows(data, cols, k + 1, engine)

parseCSV(headers, data, engine) ==
   IF Len(data) = 0 THEN <<>>
   ELSE csvRows(data,
                [date |-> findCol(headers, dateNames),
                 desc |-> findCol(headers, descNames),
                 debit |-> findCol(headers, debitNames),
                 credit |-> findCol(headers, creditNames),
                 amount |-> findCol(headers, amountNames),
                 balance |-> findCol(headers, balanceNames),
                 type |-> findCol(headers, typeNames)],
                1, engine)

\* ------------------------------------------------------------------------
\* Documents given to the extractors.
\* ------------------------------------------------------------------------
MaxGlyphs == 3

\* Loose text items of up to two pages, in the order the pages list them.
LooseGlyphs == {Glyph(<<"a">>, 10, y, page) : y \in {100, 102, 103, 106}, page \in {1, 2}}

LooseDocuments ==
   UNION {[1..n -> LooseGlyphs] : n \in 2..MaxGlyphs}

\* Positions of the columns of a statement table.
DateX == 10
NarrationX == 100
WithdrawalX == 300
DepositX == 400
BalanceX == 500
LineHeight == 20

\* The items of the lines of one page: line r at y = r * LineHeight, each
\* line a sequence of <<text, x>>.
PageItems(lines) ==
   LET RECURSIVE upTo(_)
       upTo(r) == IF r = 0 THEN <<>>
                  ELSE upTo(r - 1) \o
                       [k \in 1..Len(lines[r]) |->
                          Glyph(lines[r][k][1], lines[r][k][2], r * LineHeight, 1)]
   IN  upTo(Len(lines))

TitleLines ==
   { <<>>,
     << << <<<<"C","r","e","d","i","t"," ","C","a","r","d"," ","S","t","a","t","e","m","e","n","t">>, DateX>> >> >>,
     << << <<<<"D","a","t","e">>, DateX>>, <<<<"B","a","l","a","n","c","e">>, BalanceX>> >> >> }

HeaderLines ==
   { <<>>,
     << << <<<<"D","a","t","e">>, DateX>>, <<<<"N","a","r","r","a","t","i","o","n">>, NarrationX>>,
           <<<<"A","m","o","u","n","t">>, WithdrawalX>> >> >>,
     << << <<<<"D","a","t","e">>, DateX>>, <<<<"D","e","t","a","i","l","s">>, NarrationX>>,
           <<<<"D","e","b","i","t">>, WithdrawalX>>, <<<<"C","r","e","d","i","t">>, DepositX>> >> >>,
     << << <<<<"D","a","t","e">>, DateX>>, <<<<"N","a","r","r","a","t","i","o","n">>, NarrationX>>,
           <<<<"W","i","t","h","d","r","a","w","a","l">>, WithdrawalX>>, <<<<"D","e","p","o","s","i","t">>, DepositX>>,
           <<<<"B","a","l","a","n","c","e">>, BalanceX>> >> >> }

DataLines ==
   { << <<<<"0","1","/","0","2","/","2","4">>, DateX>>, <<<<"A","M","A","Z","O","N">>, NarrationX>>,
        <<<<"1","0","0",".","0","0">>, WithdrawalX>>, <<<<"9","0","0",".","0","0">>, BalanceX>> >>,
     << <<<<"0","2","/","0","2","/","2","4">>, DateX>>, <<<<"R","E","F","U","N","D"," ","S","H","O","P">>, NarrationX>>,
        <<<<"5","0",".","0","0">>, DepositX>>, <<<<"9","5","0",".","0","0">>, BalanceX>> >>,
     << <<<<"0","3","/","0","2","/","2","4">>, DateX>>, <<<<"U","B","E","R"," ","C","A","B">>, NarrationX>>,
        <<<<"0",".","0","0">>, WithdrawalX>> >>,
     << <<<<"0","4","/","0","2","/","2","4">>, DateX>>, <<<<"Z","E","D">>, NarrationX>>, <<<<"n",".","a",".">>, WithdrawalX>> >>,
     << <<<<"0","5","/","0","2","/","2","4">>, DateX>>, <<<<"C","A","S","H","B","A","C","K">>, NarrationX>>,
        <<<<"1","0",".","0","0">>, WithdrawalX>> >>,
     << <<<<"0","6","/","0","2","/","2","4">>, DateX>>, <<<<"P","A","Y","M","E","N","T">>, NarrationX>>,
        <<<<"2","0",".","0","0">>, DepositX>> >> }

StatementDocuments ==
   {PageItems(t \o h \o d) :
      t \in TitleLines, h \in HeaderLines,
      d \in {<<a>> : a \in DataLines} \cup
            {<<a, b>> : a \in DataLines, b \in DataLines}}

\* Delimited files as Papa.parse returns them.
CsvFile(headers, data) == [headers |-> headers, data |-> data]

SeparateHeaders == <<<<"D","a","t","e">>, <<"D","e","s","c","r","i","p","t","i","o","n">>, <<"D","e","b","i","t">>, <<"C","r","e","d","i","t">>, <<"B","a","l","a","n","c","e">>>>
SingleHeaders == <<<<"D","a","t","e">>, <<"N","a","r","r","a","t","i","o","n">>, <<"A","m","o","u","n","t">>>>
TypedHeaders == <<<<"D","a","t","e">>, <<"N","a","r","r","a","t","i","o","n">>, <<"A","m","o","u","n","t">>, <<"T","y","p","e">>>>

CsvDates == {<<"0","1","/","0","2","/","2","0","2","4">>, <<"1","5"," ","J","a","n"," ","2","4">>, <<"n","/","a">>, <<>>}
CsvAmounts == {<<"1","0","0",".","0","0">>, <<"1",",","2","3","4",".","5","0">>, <<"-","5",".","0","0">>, <<"0">>, <<"0",".","0","0">>, <<"a","b","c">>, <<>>, NullText}

SeparateRows ==
   {<<d, <<"U","b","e","r"," ","7">>, dr, cr, <<"1","0",".","0","0">>>> :
       d \in CsvDates, dr \in CsvAmounts, cr \in {<<"5","0",".","0","0">>, <<"0">>, <<"a","b","c">>, <<>>}}

SingleRows ==
   {<<<<"0","1","/","0","2","/","2","0","2","4">>, <<"U","b","e","r"," ","7">>, a>> : a \in CsvAmounts}
   \cup {<<<<"0","1","/","0","2","/","2","0","2","4">>, <<"U","b","e","r"," ","7">>, a, t>> :
            a \in {<<"1","0","0",".","0","0">>, <<"0">>}, t \in {<<"C","R">>, <<"D","r">>, NullText}}

CsvDocuments ==
   {CsvFile(SeparateHeaders, <<r>>) : r \in SeparateRows}
   \cup {CsvFile(SeparateHeaders, <<r, q>>) :
            r \in {<<<<"0","1","/","0","2","/","2","0","2","4">>, <<"U","b","e","r"," ","7">>, <<"0">>, <<"0">>, <<"1","0",".","0","0">>>>,
                   <<<<"n","/","a">>, <<"U","b","e","r"," ","7">>, <<"1","0","0",".","0","0">>, <<"0">>, <<"1","0",".","0","0">>>>},
            q \in {<<<<"0","2","/","0","2","/","2","0","2","4">>, <<"Z","e","d"," ","9">>, <<"1","0","0",".","0","0">>, <<"5","0",".","0","0">>, <<"1","0",".","0","0">>>>}}
   \cup {CsvFile(IF Len(r) = 3 THEN SingleHeaders ELSE TypedHeaders, <<r>>) :
            r \in SingleRows}
   \cup {CsvFile(SeparateHeaders, <<>>)}

InitExtract ==
   /\ importTables = "uuid"
   /\ ledgerSchema = "full"
   /\ staged_transactions = {}
   /\ transactions = {}
   /\ category_rules = {}
   /\ nextId = 1
   /\ nextBatch = 1
   /\ nextTx = 1
   /\ uploads = 0
   /\ edits = 0
   /\ reqs = [s \in {1, 2} |-> Idle]
   /\ uploadDir = {}
   /\ current_balance = [a \in AccountIds |-> 0]
   /\ \/ \E items \in LooseDocuments \cup StatementDocuments, engine \in EngineDates :
            last = [op |-> "pdf", items |-> items, engine |-> engine]
      \/ \E file \in CsvDocuments, engine \in EngineDates :
            last = [op |-> "csv", file |-> file, engine |-> engine]

\* parsePDF on the opened document; the call and its result are kept in last.
ParsePDF ==
   /\ last.op = "pdf"
   /\ last' = [op |-> "parsePDF", items |-> last.items,
               out |-> parsePDF(last.items, last.engine)]
   /\ UNCHANGED <<importTables, ledgerSchema, staged_transactions, transactions,
                  category_rules, nextId, nextBatch, nextTx, uploads, edits, reqs,
                  uploadDir, current_balance>>

\* parseCSV on the parsed file; the call and its result are kept in last.
ParseCSV ==
   /\ last.op = "csv"
   /\ last' = [op |-> "parseCSV", file |-> last.file,
               out |-> parseCSV(last.file.headers, last.file.data, last.engine)]
   /\ UNCHANGED <<importTables, ledgerSchema, staged_transactions, transactions,
                  category_rules, nextId, nextBatch, nextTx, uploads, edits, reqs,
                  uploadDir, current_balance>>

NextExtract == ParsePDF \/ ParseCSV

SpecExtract == InitExtract /\ [][NextExtract]_vars

\* ------------------------------------------------------------------------
\* Rows of the page layout (under SpecExtract).
\* ------------------------------------------------------------------------
ParsedPDF == last.op = "parsePDF"

\* The row (its index in rows) that holds the k-th item of the sorted items:
\* the rows, one after the other, are the sorted items.
RECURSIVE RowOf(_, _)
RowOf(rows, k) ==
   IF k <= Len(rows[1]) THEN 1 ELSE 1 + RowOf(Tail(rows), k - Len(rows[1]))

\* ------------------------------------------------------------------------
\* C21. In (page, y, x) order, any two consecutive items on the same page
\* whose y differs by at most 4 are in the same row, and two consecutive
\* items on different pages, or the two items of a two-item document whose
\* y differs by more than 4, are in different rows.
\* ------------------------------------------------------------------------
C21_ConsecutiveGlyphsWithinFourShareRow ==
   ParsedPDF =>
      LET sorted == last.out.sorted
          rows == last.out.rows
      IN  \A k \in 1..(Len(sorted) - 1) :
             LET a == sorted[k]
                 b == sorted[k + 1]
             IN  /\ (a.page = b.page /\ b.y - a.y <= 4 /\ a.y - b.y <= 4)
                       => RowOf(rows, k) = RowOf(rows, k + 1)
                 /\ (a.page # b.page
                     \/ (Len(sorted) = 2 /\ (b.y - a.y > 4 \/ a.y - b.y > 4)))
                       => RowOf(rows, k) # RowOf(rows, k + 1)

\* What the grouping does: an item joins the open row when it is on the page
\* of the row's first item and within 4 of that item's y.
C21_WithinFourOfTheRowsFirstItem ==
   ParsedPDF =>
      LET sorted == last.out.sorted
          rows == last.out.rows
      IN  \A k \in 1..(Len(sorted) - 1) :
             LET first == rows[RowOf(rows, k)][1]
                 b == sorted[k + 1]
             IN  RowOf(rows, k) = RowOf(rows, k + 1)
                    <=> (first.page = b.page /\ b.y - first.y <= 4)

\* ------------------------------------------------------------------------
\* Header row (under SpecExtract).
\* ------------------------------------------------------------------------
HeaderKeywordSet ==
   {<<"d","a","t","e">>, <<"n","a","r","r","a","t","i","o","n">>, <<"d","e","s","c","r","i","p","t","i","o","n">>, <<"p","a","r","t","i","c","u","l","a","r","s">>, <<"w","i","t","h","d","r","a","w","a","l">>,
    <<"d","e","p","o","s","i","t">>, <<"d","e","b","i","t">>, <<"c","r","e","d","i","t">>, <<"b","a","l","a","n","c","e">>, <<"c","h","q">>, <<"r","e","f">>}

\* The keywords the text of a row contains, case ignored.
KeywordsIn(text) == {k \in HeaderKeywordSet : includes(toLowerCase(text), k)}

\* ------------------------------------------------------------------------
\* C22. The header is the first row, from the top, whose text contains at
\* least 3 keywords of the header-keyword set: no row above it contains 3,
\* a row with exactly 2 is never the header, and when no row contains 3
\* the line-based extractor is used instead of the column-anchored one.
\* ------------------------------------------------------------------------
C22_HeaderIsFirstRowWithThreeKeywords ==
   ParsedPDF =>
      LET textRows == last.out.textRows
          h == last.out.headerRowIdx
      IN  IF \A r \in 1..Len(textRows) : Cardinality(KeywordsIn(textRows[r].text)) < 3
            THEN h = 0 - 1 /\ last.out.extractor = "parsePDFLineBased"
            ELSE /\ h >= 0 /\ h < Len(textRows)
                 /\ Cardinality(KeywordsIn(textRows[h + 1].text)) >= 3
                 /\ \A r \in 1..h : Cardinality(KeywordsIn(textRows[r].text)) < 3
                 /\ last.out.extractor = "columns"

\* A row with exactly two keywords lies above the header that was found, and
\* a transaction was read below the header.
C22_Witness ==
   /\ ParsedPDF
   /\ last.out.headerRowIdx >= 1
   /\ \E r \in 1..last.out.headerRowIdx :
         Cardinality(KeywordsIn(last.out.textRows[r].text)) = 2
   /\ Len(last.out.transactions) >= 1

\* ------------------------------------------------------------------------
\* Credit-card statements (under SpecExtract).
\* ------------------------------------------------------------------------
InflowMarkers == {<<"r","e","f","u","n","d">>, <<"c","a","s","h","b","a","c","k">>, <<"r","e","v","e","r","s","a","l">>, <<"c","r","e","d","i","t">>, <<"p","a","y","m","e","n","t"," ","r","e","c","e","i","v","e","d">>}

\* The text of the row a transaction was read from has an inflow marker.
Marked(text) == \E w \in InflowMarkers : includes(toLowerCase(text), w)

\* ------------------------------------------------------------------------
\* C23. For a document detected as a credit-card statement, every extracted
\* transaction is an outflow ('debit') unless the text of its row contains
\* a refund, cashback, reversal, credit or "payment received" marker, in
\* which case it is an inflow ('credit'); with a header row and with the
\* line-based extractor alike.
\* ------------------------------------------------------------------------
C23_CardRowsOutflowUnlessMarked ==
   (ParsedPDF /\ last.out.cc) =>
      \A k \in 1..Len(last.out.transactions) :
         LET tx == last.out.transactions[k]
             text == last.out.textRows[tx.row + 1].text
         IN  tx.transaction_type = IF Marked(text) THEN "credit" ELSE "debit"

\* The line-based extractor alone follows the rule.
C23_LineBasedCardRowsOutflowUnlessMarked ==
   (ParsedPDF /\ last.out.cc /\ last.out.extractor = "parsePDFLineBased") =>
      \A k \in 1..Len(last.out.transactions) :
         LET tx == last.out.transactions[k]
             text == last.out.textRows[tx.row + 1].text
         IN  tx.transaction_type = IF Marked(text) THEN "credit" ELSE "debit"

\* ------------------------------------------------------------------------
\* Delimited files with an outflow and an inflow column (under SpecExtract).
\* ------------------------------------------------------------------------
ParsedSeparate == last.op = "parseCSV" /\ last.file.headers = SeparateHeaders

\* The candidates read from data row r (from 1).
FromRow(out, r) == {k \in 1..Len(out) : out[k].row = r - 1}

\* ------------------------------------------------------------------------
\* C24. With separate outflow and inflow columns, a row with a parseable
\* date yields exactly one candidate: an outflow with the outflow column's
\* amount when that amount is not zero (also when both are not zero), an
\* inflow with the inflow column's amount when only that one is not zero;
\* it yields none when both are zero, and a row with an unparseable date
\* yields none.
\* ------------------------------------------------------------------------
C24_SeparateColumnsDirection ==
   ParsedSeparate =>
      \A r \in 1..Len(last.file.data) :
         LET row == last.file.data[r]
             dated == parseDate(row[1], NullText) # NullText
             dr == parseAmount(row[3])
             cr == parseAmount(row[4])
             from == FromRow(last.out, r)
         IN  IF dated /\ (dr # 0 \/ cr # 0)
               THEN /\ Cardinality(from) = 1
                    /\ \A k \in from :
                          /\ last.out[k].transaction_type = IF dr # 0 THEN "debit" ELSE "credit"
                          /\ last.out[k].amount = IF dr # 0 THEN dr ELSE cr
               ELSE from = {}

\* Of a file of two rows the first gave no candidate and the second, with
\* both amounts not zero, was read as an outflow.
C24_Witness ==
   /\ ParsedSeparate
   /\ Len(last.file.data) = 2
   /\ Len(last.out) = 1
   /\ last.out[1].row = 1
   /\ last.out[1].transaction_type = "debit"
   /\ parseAmount(last.file.data[2][3]) # 0
   /\ parseAmount(last.file.data[2][4]) # 0

\* ------------------------------------------------------------------------
\* Candidates of the extractors (under SpecExtract).
\* ------------------------------------------------------------------------
Extracted ==
   IF last.op = "parsePDF" THEN last.out.transactions
   ELSE IF last.op = "parseCSV" THEN last.out
   ELSE <<>>

\* The amount texts (digits and commas, a point, two digits) of a text that
\* stand for an amount above zero, in hundredths.
AmountsIn(text) ==
   LET found == amountMatches(text, 1)
   IN  {parseAmount(found[k].text) : k \in 1..Len(found)} \ {0}

\* ------------------------------------------------------------------------
\* C26. Every candidate emitted by an extractor (delimited, page layout
\* with a header row, line-based) has an amount above zero and the
\* direction 'debit' or 'credit'; a row whose amount parses to zero or is
\* not a number is skipped: a row of a delimited file whose amount cells
\* all parse to zero gives no candidate, and the amount of a candidate read
\* from a page is that of an amount text of its row.
\* ------------------------------------------------------------------------
C26_CandidatesHavePositiveAmount ==
   /\ \A k \in 1..Len(Extracted) :
         /\ Extracted[k].amount > 0
         /\ Extracted[k].transaction_type \in {"debit", "credit"}
   /\ last.op = "parseCSV" =>
         \A r \in 1..Len(last.file.data) :
            LET row == last.file.data[r]
                zero == IF last.file.headers = SeparateHeaders
                          THEN parseAmount(row[3]) = 0 /\ parseAmount(row[4]) = 0
                          ELSE parseAmount(row[3]) = 0
            IN  zero => FromRow(last.out, r) = {}
   /\ last.op = "parsePDF" =>
         \A k \in 1..Len(last.out.transactions) :
            LET tx == last.out.transactions[k]
            IN  tx.amount \in AmountsIn(last.out.textRows[tx.row + 1].text)

\* Below a header row, of two data rows the first, whose amount is 0.00,
\* gave no candidate and the second gave one.
C26_Witness ==
   /\ last.op = "parsePDF"
   /\ last.out.extractor = "columns"
   /\ Len(last.out.textRows) = last.out.headerRowIdx + 3
   /\ includes(last.out.textRows[last.out.headerRowIdx + 2].text, <<"0",".","0","0">>)
   /\ AmountsIn(last.out.textRows[last.out.headerRowIdx + 2].text) = {}
   /\ Len(last.out.transactions) = 1
   /\ last.out.transactions[1].row = last.out.headerRowIdx + 2

\* ------------------------------------------------------------------------
\* Review edits that name accounts, then confirm: the store of SpecFrame
\* (a staged batch of u1; a staged batch, a ledger row and a rule of u2),
\* edited and confirmed by u1.
\* ------------------------------------------------------------------------
AccountEditBodies ==
   { [suggested_credit_account_id |-> "b1"],
     [suggested_debit_account_id |-> "a3"],
     [status |-> "approved"] }

AccountBulkBodies ==
   { [suggested_debit_account_id |-> "b2"],
     [status |-> "approved"] }

NextAccounts ==
   \/ EditStaged(Owner, AccountEditBodies)
   \/ BulkEdit(Owner, AccountBulkBodies)
   \/ Confirm(Owner)

SpecAccounts == InitFrame /\ [][NextAccounts]_vars

\* ------------------------------------------------------------------------
\* C27. Every ledger row created by confirm has a debit account and a
\* credit account that belong to the owner of the row, whatever account
\* ids classification, a single edit or a bulk edit put on the staged row.
\* ------------------------------------------------------------------------
C27_LedgerRowsUseOwnAccounts ==
   [][ConfirmDone =>
         \A t \in Inserted :
            /\ AccountOwner(t.debit_account_id) = t.user_id
            /\ AccountOwner(t.credit_account_id) = t.user_id]_vars

\* ------------------------------------------------------------------------
\* Retry of a failed confirm (under Spec).
\* ------------------------------------------------------------------------
\* The step serves a confirm of the owner and batch of the confirm served
\* just before, which answered 500.
RetryOfFailedConfirm ==
   /\ last.op = "confirm" /\ last.status = 500
   /\ ConfirmDone
   /\ last'.user = last.user /\ last'.batch = last.batch

\* Ledger rows that are the commit of a row still staged for the retry.
AlreadyInserted ==
   {o \in transactions :
       \E r \in InScope(last.user, last.batch) : CommitOf(o, r)}

\* ------------------------------------------------------------------------
\* C28. If a confirm fails after inserting ledger rows and before deleting
\* the staged rows (the DELETE fails), the staged rows remain, and the
\* retry of the confirm adds no second ledger row for a row already
\* inserted and no rule hit beyond those of the rows it inserts itself.
\* ------------------------------------------------------------------------
C28_RetryAddsNothingTwice ==
   [][/\ (ConfirmDone /\ last'.status = 500)
            => staged_transactions' = staged_transactions
      /\ RetryOfFailedConfirm
            => /\ \A o \in AlreadyInserted : \A t \in Inserted : ~SameKey(o, t)
               /\ \A n \in category_rules' :
                     n.hit_count - HitCount(category_rules, n.user_id, n.pattern)
                        <= Cardinality(Teaching(n.user_id, n.pattern))]_vars

\* Rows with a description are not inserted again by the retry.
C28_RetrySkipsRowsWithDescription ==
   [][RetryOfFailedConfirm
         => \A o \in AlreadyInserted : \A t \in Inserted :
               o.description # NullText => ~SameKey(o, t)]_vars

\* ------------------------------------------------------------------------
\* POST /api/transactions of the ledger API, statement by statement, on a
\* connection of the pool. A connection carries its open transaction, if
\* any, and the writes of that transaction; the pool hands out the
\* connection as release left it.
\* ------------------------------------------------------------------------
\* A connection with no transaction open.
FreshClient == [open |-> FALSE, inserted |-> {}, updated |-> <<>>]

\* client.query('BEGIN'): opens a transaction; inside one it only warns.
Begin(client) == [client EXCEPT !.open = TRUE]

\* The ledger rows a statement on the connection sees (READ COMMITTED).
Visible(db, client) == db.ledger \cup client.inserted

\* The tables after client.query('COMMIT').
Committed(db, client) ==
   [db EXCEPT !.ledger = db.ledger \cup client.inserted,
              !.balance = [a \in DOMAIN db.balance |->
                             IF a \in DOMAIN client.updated
                               THEN client.updated[a] ELSE db.balance[a]]]

\* client.query('COMMIT') and client.query('ROLLBACK') both end the
\* transaction of the connection.
EndTransaction(client) == FreshClient

\* UPDATE accounts SET current_balance = COALESCE(SUM(debits) - SUM(credits), 0)
\* WHERE account_id = $1, inside the transaction of the connection.
updateAccountBalance(db, client, accountId) ==
   IF accountId \in DOMAIN db.balance
     THEN [client EXCEPT !.updated =
             (accountId :> LedgerBalance(Visible(db, client), accountId))
                @@ client.updated]
     ELSE client

\* !date || !amount || !debit_account_id || !credit_account_id
MissingFields(body) ==
   \/ body.date = NullNum
   \/ body.amount = NullNum \/ body.amount = 0
   \/ body.debit_account_id = NULL
   \/ body.credit_account_id = NULL

\* SELECT account_id FROM accounts WHERE account_id IN ($1, $2) AND user_id = $3
accountCheck(body, userId) ==
   {a \in AccountIds :
       /\ a \in {body.debit_account_id, body.credit_account_id}
       /\ AccountOwner(a) = userId}

\* The row of INSERT INTO transactions ... RETURNING *.
CreatedRow(id, userId, body) ==
   [transaction_id |-> id, user_id |-> userId, date |-> body.date,
    amount |-> body.amount,
    description |-> IF body.description = NullText THEN <<>> ELSE body.description,
    debit_account_id |-> body.debit_account_id,
    credit_account_id |-> body.credit_account_id,
    category |-> Uncategorized]

\* Request bodies; fault names the statement of the request that fails.
CreateBodies ==
   [date : {NullNum, 1}, amount : {NullNum, 0, 1},
    description : {NullText, DescUber},
    debit_account_id : {NULL, "a1", "a2", "b1"},
    credit_account_id : {NULL, "a1", "a2"}]

CreateFaults == {"none", "accountCheck", "insert", "balance", "commit"}

\* const client = await pool.connect(), before the try block.
CreateBegin(userId, body, fault, client) ==
   [pc |-> "begin", op |-> "createTransaction", status |-> 0, user |-> userId,
    body |-> body, fault |-> fault, client |-> client, statements |-> <<>>]

\* return res.status(...) inside try, then finally { client.release() }.
Respond(p, status) ==
   [p EXCEPT !.pc = "done", !.status = status,
             !.statements = Append(p.statements, "release")]

\* if (...) return res.status(400).json(...)
CreateReject(p, status) == Respond(p, status)

Issued(p, statement) == [p EXCEPT !.statements = Append(p.statements, statement)]

\* One statement of the request and the code up to the next statement.
CreateStep(db, p) ==
   CASE p.pc = "begin" ->
           LET q == [Issued(p, "BEGIN") EXCEPT !.client = Begin(p.client)]
           IN  [db |-> db,
                p |-> IF MissingFields(q.body) THEN CreateReject(q, 400)
                      ELSE IF q.body.debit_account_id = q.body.credit_account_id
                        THEN CreateReject(q, 400)
                      ELSE [q EXCEPT !.pc = "accountCheck"]]
     [] p.pc = "accountCheck" ->
           LET q == Issued(p, "SELECT")
           IN  [db |-> db,
                p |-> IF q.fault = "accountCheck" THEN [q EXCEPT !.pc = "catch"]
                      ELSE IF Cardinality(accountCheck(q.body, q.user)) < 2
                        THEN CreateReject(q, 400)
                      ELSE [q EXCEPT !.pc = "insert"]]
     [] p.pc = "insert" ->
           LET q == Issued(p, "INSERT")
           IN  IF q.fault = "insert"
                 THEN [db |-> db, p |-> [q EXCEPT !.pc = "catch"]]
                 ELSE [db |-> [db EXCEPT !.nextTx = db.nextTx + 1],
                       p |-> [q EXCEPT !.pc = "balanceDebit",
                                       !.client.inserted = q.client.inserted \cup
                                          {CreatedRow(db.nextTx, q.user, q.body)}]]
     [] p.pc = "balanceDebit" ->
           LET q == Issued(p, "UPDATE")
           IN  [db |-> db,
                p |-> IF q.fault = "balance" THEN [q EXCEPT !.pc = "catch"]
                      ELSE [q EXCEPT !.pc = "balanceCredit",
                                     !.client = updateAccountBalance(
                                                   db, q.client, q.body.debit_account_id)]]
     [] p.pc = "balanceCredit" ->
           LET q == Issued(p, "UPDATE")
           IN  [db |-> db,
                p |-> [q EXCEPT !.pc = "commit",
                                !.client = updateAccountBalance(
                                              db, q.client, q.body.credit_account_id)]]
     [] p.pc = "commit" ->
           LET q == Issued(p, "COMMIT")
           IN  IF q.fault = "commit"
                 THEN [db |-> db, p |-> [q EXCEPT !.pc = "catch"]]
                 ELSE [db |-> Committed(db, q.client),
                       p |-> Respond([q EXCEPT !.client = EndTransaction(q.client)], 201)]
     [] p.pc = "catch" ->
           LET q == Issued(p, "ROLLBACK")
           IN  [db |-> db,
                p |-> Respond([q EXCEPT !.client = EndTransaction(q.client)], 500)]

\* The answer of the request, with the statements it issued on the
\* connection and the connection as it went back to the pool.
CreateResponse(p) ==
   [op |-> "createTransaction", user |-> p.user, status |-> p.status,
    statements |-> p.statements, client |-> p.client]

\* The handler starts: pool.connect() takes the idle connection.
CreateReceive(U) ==
   /\ reqs.handler = Idle
   /\ nextTx <= MaxLedger
   /\ \E userId \in U, body \in CreateBodies, fault \in CreateFaults :
         reqs' = [handler |-> CreateBegin(userId, body, fault, reqs.pool),
                  pool |-> reqs.pool]
   /\ UNCHANGED <<importTables, ledgerSchema, staged_transactions, transactions,
                  category_rules, nextId, nextBatch, nextTx, uploads, edits, last,
                  uploadDir, current_balance>>

CreateStatement ==
   /\ reqs.handler # Idle
   /\ LET r == CreateStep([ledger |-> transactions, balance |-> current_balance,
                           nextTx |-> nextTx], reqs.handler)
      IN  /\ transactions' = r.db.ledger
          /\ current_balance' = r.db.balance
          /\ nextTx' = r.db.nextTx
          /\ reqs' = IF r.p.pc = "done"
                       THEN [handler |-> Idle, pool |-> r.p.client]
                       ELSE [handler |-> r.p, pool |-> reqs.pool]
          /\ last' = IF r.p.pc = "done" THEN CreateResponse(r.p) ELSE last
   /\ UNCHANGED <<importTables, ledgerSchema, staged_transactions, category_rules,
                  nextId, nextBatch, uploads, edits, uploadDir>>

InitLedgerApi ==
   /\ importTables = "uuid"
   /\ ledgerSchema = "full"
   /\ staged_transactions = {}
   /\ transactions = {}
   /\ category_rules = {}
   /\ nextId = 1
   /\ nextBatch = 1
   /\ nextTx = 1
   /\ uploads = 0
   /\ edits = 0
   /\ reqs = [handler |-> Idle, pool |-> FreshClient]
   /\ uploadDir = {}
   /\ current_balance = [a \in AccountIds |-> 0]
   /\ last = Reply("none", 0)

NextLedgerApi ==
   \/ CreateReceive(Owner)
   \/ CreateStatement

\* Requests of one owner served one after the other on the pooled connection.
SpecLedgerApi == InitLedgerApi /\ [][NextLedgerApi]_vars

\* ------------------------------------------------------------------------
\* Transactions of the create-transaction handler (under SpecLedgerApi).
\* ------------------------------------------------------------------------
\* The handler has answered.
Created == last.op = "createTransaction"

\* The log has COMMIT or ROLLBACK after its last BEGIN and before release.
ClosedBeforeRelease(log) ==
   \A i \in 1..Len(log) :
      log[i] = "BEGIN" =>
         \E j \in (i + 1)..Len(log) : log[j] \in {"COMMIT", "ROLLBACK"}

\* ------------------------------------------------------------------------
\* C29. Every path of the create-transaction handler that has issued BEGIN
\* on a pooled connection issues COMMIT or ROLLBACK before the connection is
\* released to the pool, the validation failures (missing fields, equal
\* accounts, accounts of another owner) included.
\* ------------------------------------------------------------------------
C29_BeginIsClosedBeforeRelease ==
   Created => /\ ClosedBeforeRelease(last.statements)
              /\ ~last.client.open

\* The paths that reach the INSERT, and the paths a statement fails on, do
\* close the transaction before release.
C29_InsertPathsClose ==
   (Created /\ last.status \in {201, 500})
      => /\ ClosedBeforeRelease(last.statements)
         /\ ~last.client.open

\* ------------------------------------------------------------------------
\* The legacy full-history importer (import-gnucash-v2.js, main), statement
\* by statement. A row of the export is held by the columns main decides on:
\* 'Transaction ID', 'Full Account Name', 'Amount Num.' (in hundredths) and
\* 'Date'; the descriptive columns (names, types, category, memo) are left
\* out of the rows and of the tables.
\* ------------------------------------------------------------------------
GnuRow(tx, account, amount, date) ==
   [tx |-> tx, account |-> account, amount |-> amount, date |-> date]

\* Positions of a sequence whose key occurs there for the first time.
FirstOccurrences(keys) ==
   {i \in 1..Len(keys) : \A k \in 1..(i - 1) : keys[k] # keys[i]}

\* The members of a set of positions, in increasing order.
RECURSIVE Ascending(_)
Ascending(S) ==
   IF S = {} THEN <<>>
   ELSE LET m == CHOOSE x \in S : \A y \in S : x <= y
        IN  <<m>> \o Ascending(S \ {m})

\* uniqueAccounts: the account names of the rows in order of first
\* appearance; a row without a name gives none.
uniqueAccounts(rows) ==
   LET names == [i \in 1..Len(rows) |-> rows[i].account]
       first == {i \in FirstOccurrences(names) : names[i] # ""}
       order == Ascending(first)
   IN  [k \in 1..Len(order) |-> names[order[k]]]

\* txGroups: the rows of each transaction id, ids in order of first
\* appearance; a row without an id belongs to no group.
txGroups(rows) ==
   LET ids == [i \in 1..Len(rows) |-> rows[i].tx]
       first == {i \in FirstOccurrences(ids) : ids[i] # ""}
       order == Ascending(first)
   IN  [k \in 1..Len(order) |->
          SelectSeq(rows, LAMBDA r : r.tx = ids[order[k]])]

\* accountIdMap.get(name): the id the INSERT returned, or nothing.
accountIdOf(names, ids, name) ==
   IF \E i \in 1..Len(ids) : names[i] = name
     THEN ids[CHOOSE i \in 1..Len(ids) : names[i] = name]
     ELSE NULL

\* Math.round(pos.amount * (neg.amount / totalNeg) * 100) / 100
proportional(pos, neg, totalNeg) ==
   (2 * pos * neg + totalNeg) \div (2 * totalNeg)

RECURSIVE SumAmounts(_)
SumAmounts(entries) ==
   IF entries = <<>> THEN 0
   ELSE Abs(Head(entries).amount) + SumAmounts(Tail(entries))

\* One INSERT INTO transactions the loop is going to issue.
LedgerInsert(g, date, amount, debit, credit) ==
   [group |-> g, date |-> date, amount |-> amount,
    debit_account_id |-> debit, credit_account_id |-> credit]

\* The amount of the INSERT for one positive and one negative entry: the
\* positive's with one source, the negative's with one destination, the
\* proportional share in a complex split.
pairAmount(split, pos, neg, totalNeg) ==
   CASE split = "destinations" -> pos.amount
     [] split = "sources" -> Abs(neg.amount)
     [] split = "complex" -> proportional(pos.amount, Abs(neg.amount), totalNeg)

RECURSIVE pairInserts(_, _, _, _, _, _, _, _)
\* The INSERTs of positives x negatives in loop order, leaving out the pairs
\* main passes over (account unknown, both sides equal, amount not positive).
pairInserts(g, date, positives, negatives, id, split, totalNeg, k) ==
   IF k > Len(positives) * Len(negatives) THEN <<>>
   ELSE LET pos == positives[((k - 1) \div Len(negatives)) + 1]
            neg == negatives[((k - 1) % Len(negatives)) + 1]
            debit == id[pos.account]
            credit == id[neg.account]
            amount == pairAmount(split, pos, neg, totalNeg)
            rest == pairInserts(g, date, positives, negatives, id, split,
                                totalNeg, k + 1)
        IN  IF debit = NULL \/ credit = NULL \/ debit = credit \/ amount <= 0
              THEN rest
              ELSE <<LedgerInsert(g, date, amount, debit, credit)>> \o rest

\* The body of the loop over txGroups for one group: whether the group is
\* counted as skipped, and the INSERTs it issues.
groupInserts(g, group, names, ids) ==
   LET positives == SelectSeq(group, LAMBDA r : r.amount > 0)
       negatives == SelectSeq(group, LAMBDA r : r.amount < 0)
       date == group[1].date
       id == [n \in {group[i].account : i \in 1..Len(group)} |->
                accountIdOf(names, ids, n)]
       skip == [skipped |-> TRUE, inserts |-> <<>>]
       totalNeg == SumAmounts(negatives)
   IN  IF Len(group) = 1 /\ group[1].amount = 0 THEN skip
       ELSE IF Len(positives) = 0 \/ Len(negatives) = 0 THEN skip
       ELSE IF date = NullNum THEN skip
       ELSE IF Len(positives) = 1 /\ Len(negatives) = 1
         THEN IF \/ id[positives[1].account] = NULL
                 \/ id[negatives[1].account] = NULL
                 \/ id[positives[1].account] = id[negatives[1].account]
                THEN skip
                ELSE [skipped |-> FALSE,
                      inserts |-> <<LedgerInsert(g, date, positives[1].amount,
                                                 id[positives[1].account],
                                                 id[negatives[1].account])>>]
       ELSE IF Len(negatives) = 1
         THEN IF id[negatives[1].account] = NULL THEN skip
              ELSE [skipped |-> FALSE,
                    inserts |-> pairInserts(g, date, positives, negatives, id,
                                            "destinations", totalNeg, 1)]
       ELSE IF Len(positives) = 1
         THEN IF id[positives[1].account] = NULL THEN skip
              ELSE [skipped |-> FALSE,
                    inserts |-> pairInserts(g, date, positives, negatives, id,
                                            "sources", totalNeg, 1)]
       ELSE [skipped |-> FALSE,
             inserts |-> pairInserts(g, date, positives, negatives, id,
                                     "complex", totalNeg, 1)]

RECURSIVE importPlan(_, _, _, _)
\* The INSERTs of the whole loop, and the groups it skips.
importPlan(groups, names, ids, g) ==
   IF g > Len(groups) THEN [skipped |-> 0, inserts |-> <<>>]
   ELSE LET here == groupInserts(g, groups[g], names, ids)
            rest == importPlan(groups, names, ids, g + 1)
        IN  [skipped |-> rest.skipped + (IF here.skipped THEN 1 ELSE 0),
             inserts |-> here.inserts \o rest.inserts]

\* The importing user's accounts get fresh ids from the database.
NewAccountIds == <<"n1", "n2", "n3", "n4">>

\* The user the script imports for (USER_EMAIL).
ImportUser == "u1"

\* Owner of an account of the table: the accounts the script creates are
\* the importing user's.
ImportOwner(a) == IF a \in AccountIds THEN AccountOwner(a) ELSE ImportUser

\* The connection main works on: its transaction, whether a statement of
\* the transaction has failed, and the tables as the transaction sees them.
ImportClient ==
   [open |-> FALSE, aborted |-> FALSE, released |-> FALSE,
    view |-> [ledger |-> {}, balance |-> <<>>]]

\* The ledger and the accounts as committed.
Tables(db) == [ledger |-> db.ledger, balance |-> db.balance]

\* The tables a statement on the connection reads.
ImportRead(db, client) == IF client.open THEN client.view ELSE Tables(db)

\* Variant: a statement writes to the tables at once.
ImportWriteThrough(db, client, new) ==
   [db |-> [db EXCEPT !.ledger = new.ledger, !.balance = new.balance],
    client |-> [client EXCEPT !.view = new]]

\* A statement that writes: inside a transaction the tables change for the
\* connection only, until COMMIT.
ImportWrite(db, client, new) ==
   IF client.open
     THEN [db |-> db, client |-> [client EXCEPT !.view = new]]
     ELSE [db |-> [db EXCEPT !.ledger = new.ledger, !.balance = new.balance],
           client |-> client]

\* A statement that raises an error: inside a transaction every later
\* statement is refused until the transaction ends.
ImportFailed(client) ==
   IF client.open THEN [client EXCEPT !.aborted = TRUE] ELSE client

\* client.query('COMMIT'): the writes of the transaction become the tables;
\* a transaction with a failed statement is rolled back instead.
ImportCommit(db, client) ==
   [db |-> IF client.open /\ ~client.aborted
             THEN [db EXCEPT !.ledger = client.view.ledger,
                             !.balance = client.view.balance]
             ELSE db,
    client |-> [client EXCEPT !.open = FALSE, !.aborted = FALSE]]

\* client.query('ROLLBACK')
ImportRollback(db, client) ==
   [db |-> db, client |-> [client EXCEPT !.open = FALSE, !.aborted = FALSE]]

\* The statement at pc raises an error: the failure drawn for the run, or a
\* transaction that has already failed.
Raises(p, pc) == p.fault = pc \/ p.client.aborted

\* DELETE FROM accounts WHERE user_id = $1 is refused while a ledger row
\* still names one of the accounts (schema.sql, REFERENCES accounts).
StillReferenced(view, userId) ==
   \E t \in view.ledger :
      \E a \in DOMAIN view.balance :
         /\ ImportOwner(a) = userId
         /\ a \in {t.debit_account_id, t.credit_account_id}

\* The row of an INSERT INTO transactions of the loop.
ImportedRow(id, userId, ins) ==
   [transaction_id |-> id, user_id |-> userId, date |-> ins.date,
    amount |-> ins.amount, debit_account_id |-> ins.debit_account_id,
    credit_account_id |-> ins.credit_account_id]

\* main once pool.connect() has resolved; userId is what the SELECT on
\* users is going to return.
ImportBegin(rows, userId, fault) ==
   [pc |-> "select", rows |-> rows, found |-> userId, fault |-> fault,
    client |-> ImportClient, userId |-> NULL,
    uniqueAccounts |-> <<>>, accountIdMap |-> <<>>, inserts |-> <<>>,
    j |-> 1, b |-> 1, imported |-> 0, skipped |-> 0, errors |-> 0,
    outcome |-> "running"]

\* finally { client.release(); await pool.end(); }
ImportFinish(p, outcome) ==
   [p EXCEPT !.pc = "done", !.outcome = outcome, !.client.released = TRUE]

\* The loops of main, entered in turn; a loop over nothing issues nothing.
EnterBalances(p) ==
   IF p.b <= Len(p.accountIdMap)
     THEN [p EXCEPT !.pc = "updateBalance"]
     ELSE [p EXCEPT !.pc = "commit"]

EnterTransactions(p) ==
   IF p.j <= Len(p.inserts)
     THEN [p EXCEPT !.pc = "insertTransaction"]
     ELSE EnterBalances(p)

EnterAccounts(p) ==
   IF Len(p.accountIdMap) < Len(p.uniqueAccounts)
     THEN [p EXCEPT !.pc = "insertAccount"]
     ELSE LET plan == importPlan(txGroups(p.rows), p.uniqueAccounts,
                                 p.accountIdMap, 1)
          IN  EnterTransactions([p EXCEPT !.inserts = plan.inserts,
                                          !.skipped = plan.skipped])

\* The position after a failed INSERT of the loop: catch (err) { errors++ }
\* ends the group of the INSERT.
RECURSIVE NextGroup(_, _, _)
NextGroup(inserts, j, g) ==
   IF j <= Len(inserts) /\ inserts[j].group = g
     THEN NextGroup(inserts, j + 1, g)
     ELSE j

\* An error that escapes to the catch block of main.
Escapes(p) == [p EXCEPT !.pc = "catch", !.client = ImportFailed(p.client)]

\* One statement of main and the code up to the next statement.
ImportStep(db, p) ==
   CASE p.pc = "select" ->
           [db |-> db,
            p |-> IF Raises(p, "select") THEN Escapes(p)
                  ELSE IF p.found = NULL THEN ImportFinish(p, "no user")
                  ELSE [p EXCEPT !.pc = "begin", !.userId = p.found,
                                 !.uniqueAccounts = uniqueAccounts(p.rows)]]
     [] p.pc = "begin" ->
           [db |-> db,
            p |-> [p EXCEPT !.pc = "deleteTransactions",
                            !.client.open = TRUE,
                            !.client.view = Tables(db)]]
     [] p.pc = "deleteTransactions" ->
           LET view == ImportRead(db, p.client)
               w == ImportWrite(db, p.client,
                       [view EXCEPT !.ledger =
                           {t \in view.ledger : t.user_id # p.userId}])
           IN  [db |-> w.db, p |-> [p EXCEPT !.pc = "deleteAccounts",
                                             !.client = w.client]]
     [] p.pc = "deleteAccounts" ->
           LET view == ImportRead(db, p.client)
               kept == {a \in DOMAIN view.balance : ImportOwner(a) # p.userId}
               w == ImportWrite(db, p.client,
                       [view EXCEPT !.balance = [a \in kept |-> view.balance[a]]])
           IN  IF Raises(p, "deleteAccounts") \/ StillReferenced(view, p.userId)
                 THEN [db |-> db, p |-> Escapes(p)]
                 ELSE [db |-> w.db, p |-> EnterAccounts([p EXCEPT !.client = w.client])]
     [] p.pc = "insertAccount" ->
           LET view == ImportRead(db, p.client)
               id == NewAccountIds[Len(p.accountIdMap) + 1]
               w == ImportWrite(db, p.client,
                       [view EXCEPT !.balance = (id :> 0) @@ view.balance])
           IN  IF Raises(p, "insertAccount")
                 THEN [db |-> db, p |-> Escapes(p)]
                 ELSE [db |-> w.db,
                       p |-> EnterAccounts(
                                [p EXCEPT !.client = w.client,
                                          !.accountIdMap = Append(p.accountIdMap, id)])]
     [] p.pc = "insertTransaction" ->
           LET view == ImportRead(db, p.client)
               ins == p.inserts[p.j]
               row == ImportedRow(db.nextTx, p.userId, ins)
               w == ImportWrite(db, p.client,
                       [view EXCEPT !.ledger = view.ledger \cup {row}])
           IN  IF p.client.aborted \/ ins.date = InvalidDate
                 THEN [db |-> db,
                       p |-> EnterTransactions(
                                [p EXCEPT !.client = ImportFailed(p.client),
                                          !.errors = p.errors + 1,
                                          !.j = NextGroup(p.inserts, p.j, ins.group)])]
                 ELSE [db |-> [w.db EXCEPT !.nextTx = db.nextTx + 1],
                       p |-> EnterTransactions(
                                [p EXCEPT !.client = w.client,
                                          !.imported = p.imported + 1,
                                          !.j = p.j + 1])]
     [] p.pc = "updateBalance" ->
           LET view == ImportRead(db, p.client)
               a == p.accountIdMap[p.b]
               w == ImportWrite(db, p.client,
                       [view EXCEPT !.balance[a] = LedgerBalance(view.ledger, a)])
           IN  IF Raises(p, "updateBalance")
                 THEN [db |-> db, p |-> Escapes(p)]
                 ELSE [db |-> w.db,
                       p |-> EnterBalances([p EXCEPT !.client = w.client,
                                                     !.b = p.b + 1])]
     [] p.pc = "commit" ->
           LET c == ImportCommit(db, p.client)
           IN  IF p.fault = "commit"
                 THEN [db |-> db, p |-> Escapes(p)]
                 ELSE [db |-> c.db,
                       p |-> ImportFinish([p EXCEPT !.client = c.client], "complete")]
     [] p.pc = "catch" ->
           LET c == ImportRollback(db, p.client)
           IN  [db |-> c.db,
                p |-> ImportFinish([p EXCEPT !.client = c.client], "failed")]

\* A statement of main completes.
ImportStatement ==
   /\ reqs.main.pc # "done"
   /\ LET r == ImportStep([ledger |-> transactions, balance |-> current_balance,
                           nextTx |-> nextTx], reqs.main)
      IN  /\ transactions' = r.db.ledger
          /\ current_balance' = r.db.balance
          /\ nextTx' = r.db.nextTx
          /\ reqs' = [main |-> r.p]
   /\ UNCHANGED <<importTables, ledgerSchema, staged_transactions, category_rules,
                  nextId, nextBatch, uploads, edits, last, uploadDir>>

\* Exports: rows of rachitgnu.csv as parseCSV returns them.
Bank == "Assets:Bank"
Card == "Liabilities:Card"
FoodAccount == "Expenses:Food"
RentAccount == "Expenses:Rent"

GnuFiles ==
   { <<>>,
     << GnuRow("T1", Bank, 0 - 100, 1), GnuRow("T1", FoodAccount, 100, 1) >>,
     << GnuRow("T1", Bank, 0 - 100, 1), GnuRow("T1", FoodAccount, 100, 1),
        GnuRow("T2", Bank, 0 - 50, InvalidDate),
        GnuRow("T2", FoodAccount, 50, InvalidDate) >>,
     << GnuRow("T1", Bank, 0 - 50, InvalidDate),
        GnuRow("T1", FoodAccount, 50, InvalidDate),
        GnuRow("T2", Bank, 0 - 100, 1), GnuRow("T2", FoodAccount, 100, 1) >>,
     << GnuRow("T1", Bank, 0 - 300, 1), GnuRow("T1", FoodAccount, 100, 1),
        GnuRow("T1", RentAccount, 200, 1) >>,
     << GnuRow("T1", FoodAccount, 300, 1), GnuRow("T1", Bank, 0 - 100, 1),
        GnuRow("T1", Card, 0 - 200, 1) >>,
     << GnuRow("T1", Bank, 0 - 100, 1), GnuRow("T1", Card, 0 - 200, 1),
        GnuRow("T1", FoodAccount, 150, 1), GnuRow("T1", RentAccount, 150, 1) >>,
     << GnuRow("T1", Bank, 0 - 100, NullNum), GnuRow("T1", FoodAccount, 100, NullNum),
        GnuRow("T2", Bank, 0, 1), GnuRow("", "", 100, 1) >> }

ImportFaults ==
   {"none", "select", "deleteAccounts", "insertAccount", "updateBalance", "commit"}

\* The ledger before the run: empty, rows of the user, rows of two users,
\* and a row of another user that names an account of the user.
PreviousLedgers ==
   LET mine == ImportedRow(1, "u1", LedgerInsert(0, 1, 1, "a2", "a1"))
       theirs == ImportedRow(2, "u2", LedgerInsert(0, 1, 2, "b2", "b1"))
       crossed == ImportedRow(2, "u2", LedgerInsert(0, 1, 2, "b2", "a1"))
   IN  { {}, {mine}, {mine, theirs}, {mine, crossed} }

InitImporter ==
   /\ importTables = "uuid"
   /\ ledgerSchema = "full"
   /\ staged_transactions = {}
   /\ transactions \in PreviousLedgers
   /\ category_rules = {}
   /\ nextId = 1
   /\ nextBatch = 1
   /\ nextTx = 3
   /\ uploads = 0
   /\ edits = 0
   /\ \E rows \in GnuFiles, userId \in {NULL, ImportUser}, fault \in ImportFaults :
         reqs = [main |-> ImportBegin(rows, userId, fault)]
   /\ uploadDir = {}
   /\ current_balance = [a \in AccountIds |-> LedgerBalance(transactions, a)]
   /\ last = Reply("none", 0)

\* One run of the script.
SpecImporter == InitImporter /\ [][ImportStatement]_vars

\* ------------------------------------------------------------------------
\* The importer's transaction (under SpecImporter).
\* ------------------------------------------------------------------------
\* The accounts and ledger rows of owner u in the tables.
DataOf(ledger, balance, u) ==
   [ledger |-> {t \in ledger : t.user_id = u},
    accounts |-> {<<a, balance[a]>> : a \in {x \in DOMAIN balance : ImportOwner(x) = u}}]

\* The tables hold the whole import of run p: the accounts of the user are
\* the created ones, the ledger rows of the user are the inserted ones, and
\* every created account has its recomputed balance.
WholeImport(ledger, balance, p) ==
   LET created == {p.accountIdMap[i] : i \in 1..Len(p.accountIdMap)}
       mine == {t \in ledger : t.user_id = ImportUser}
   IN  /\ {a \in DOMAIN balance : ImportOwner(a) = ImportUser} = created
       /\ Len(p.accountIdMap) = Len(p.uniqueAccounts)
       /\ Cardinality(mine) = p.imported
       /\ p.imported = Len(p.inserts)
       /\ \A t \in mine : {t.debit_account_id, t.credit_account_id} \subseteq created
       /\ \A a \in created : balance[a] = LedgerBalance(ledger, a)

\* ------------------------------------------------------------------------
\* C30. The legacy importer is all-or-nothing for the user's data: the
\* deletion of the existing accounts and ledger rows, the new accounts, the
\* inserted rows and the recomputed balances reach the tables together, at
\* COMMIT; a run whose error escapes to the catch block rolls back and
\* leaves the previous accounts and ledger rows as they were; no step
\* touches another owner's data; the connection is released on every path.
\* ------------------------------------------------------------------------
C30_ImportIsAllOrNothing ==
   [][/\ (transactions' # transactions \/ current_balance' # current_balance)
            => /\ reqs.main.pc = "commit"
               /\ reqs'.main.outcome = "complete"
               /\ WholeImport(transactions', current_balance', reqs'.main)
      /\ reqs.main.pc = "catch"
            => /\ reqs'.main.outcome = "failed"
               /\ DataOf(transactions', current_balance', ImportUser)
                     = DataOf(transactions, current_balance, ImportUser)
      /\ \A u \in Users \ {ImportUser} :
            DataOf(transactions', current_balance', u)
               = DataOf(transactions, current_balance, u)
      /\ reqs'.main.pc = "done"
            => /\ reqs'.main.client.released
               /\ ~reqs'.main.client.open]_vars

\* A run that had deleted the user's data and inserted ledger rows has been
\* rolled back, and the user's previous ledger row is in the table.
C30_Witness ==
   /\ reqs.main.pc = "done"
   /\ reqs.main.outcome = "failed"
   /\ reqs.main.imported > 0
   /\ \E t \in transactions : t.user_id = ImportUser /\ t.transaction_id = 1

\* A run has committed an import of several accounts and ledger rows.
C30_Committed ==
   /\ reqs.main.pc = "done"
   /\ reqs.main.outcome = "complete"
   /\ reqs.main.imported > 1

====
